---- MODULE Spec2Model ----
(***************************************************************************)
(* Verification model of the claude-status status line: the threshold      *)
(* classifiers and field formatters of src/src/domain, the ANSI colouring  *)
(* of src/src/display/colors.rs, StatusLineBuilder of                      *)
(* src/src/display/status_line.rs, the error kinds of src/src/error.rs and *)
(* the program of src/src/main.rs with the git, keychain and usage probes  *)
(* it calls.                                                               *)
(*                                                                         *)
(* Text is a sequence of characters (one-character strings); an emoji, the *)
(* ESC byte and the variation selector are each one character with a       *)
(* symbolic name.  Rust's u64 values are exact naturals written as         *)
(* little-endian sequences of 16-bit limbs without a leading zero (TLC's   *)
(* own integers stop at 2^31 - 1), so 64-bit wrap-around and the 53-bit    *)
(* mantissa of f64 are computed, not assumed.                              *)
(***************************************************************************)
EXTENDS Integers, Sequences, FiniteSets, TLC

VARIABLES builder, builds, tz, overflow_checks, call, ret

\* the process running main(): where it is, what the world outside gave it
\* so far, the parsed input, the lines written to stdout and to stderr, the
\* exit code once it has exited, and the collaborators started so far
VARIABLES pc, world, claude_input, stdout, stderr, exit_code, invoked

Proc == <<pc, world, claude_input, stdout, stderr, exit_code, invoked>>

vars == <<builder, builds, tz, overflow_checks, call, ret, Proc>>

\* Option<T>: None, or Some(v)
None == <<>>

Some(v) == <<v>>

\* the outcome of a call: a returned value, or a panic
Ok(v) == [ok |-> TRUE, val |-> v]

Panicked == [ok |-> FALSE, val |-> <<>>]

\* Result::Err(e)
Err(e) == [ok |-> FALSE, err |-> e]

\* no process: the builder or a function is used on its own
ProcIdle ==
    /\ pc = "idle"
    /\ world = None
    /\ claude_input = None
    /\ stdout = <<>>
    /\ stderr = <<>>
    /\ exit_code = None
    /\ invoked = <<>>

(***************************************************************************)
(* Exact naturals: little-endian sequences of 16-bit limbs without a       *)
(* leading zero limb; <<>> is zero.                                        *)
(***************************************************************************)
Base == 2 ^ 16

RECURSIVE N(_)
N(n) == IF n = 0 THEN <<>> ELSE <<n % Base>> \o N(n \div Base)

RECURSIVE Val(_)
Val(b) == IF b = <<>> THEN 0 ELSE b[1] + Base * Val(Tail(b))

RECURSIVE Norm(_)
Norm(b) ==
    IF b = <<>> THEN <<>>
    ELSE IF b[Len(b)] = 0 THEN Norm(SubSeq(b, 1, Len(b) - 1))
    ELSE b

LimbAt(a, i) == IF i <= Len(a) THEN a[i] ELSE 0

Rest(a) == IF a = <<>> THEN <<>> ELSE Tail(a)

IsOdd(a) == LimbAt(a, 1) % 2 = 1

Pow2(k) == [i \in 1..(k \div 16) |-> 0] \o <<2 ^ (k % 16)>>

RECURSIVE AddC(_, _, _)
AddC(a, b, c) ==
    IF a = <<>> /\ b = <<>> THEN (IF c = 0 THEN <<>> ELSE <<c>>)
    ELSE LET s == LimbAt(a, 1) + LimbAt(b, 1) + c
         IN  <<s % Base>> \o AddC(Rest(a), Rest(b), s \div Base)

Add(a, b) == AddC(a, b, 0)

RECURSIVE LessFrom(_, _, _)
LessFrom(a, b, i) ==
    IF i = 0 THEN FALSE
    ELSE IF a[i] # b[i] THEN a[i] < b[i]
    ELSE LessFrom(a, b, i - 1)

Less(a, b) ==
    IF Len(a) # Len(b) THEN Len(a) < Len(b) ELSE LessFrom(a, b, Len(a))

Leq(a, b) == ~Less(b, a)

RECURSIVE SubB(_, _, _)
SubB(a, b, c) ==
    IF a = <<>> THEN <<>>
    ELSE LET d == LimbAt(a, 1) - LimbAt(b, 1) - c
         IN  <<d % Base>> \o SubB(Rest(a), Rest(b), IF d < 0 THEN 1 ELSE 0)

\* a - b for b <= a
Sub(a, b) == Norm(SubB(a, b, 0))

\* a * m + c for m, c < 2^15
RECURSIVE MulSmallC(_, _, _)
MulSmallC(a, m, c) ==
    IF a = <<>> THEN (IF c = 0 THEN <<>> ELSE <<c>>)
    ELSE LET p == a[1] * m + c
         IN  <<p % Base>> \o MulSmallC(Tail(a), m, p \div Base)

MulSmall(a, m) == Norm(MulSmallC(a, m, 0))

MulLimb(a, l) ==
    Add(MulSmall(a, l % 256), MulSmall(MulSmall(a, l \div 256), 256))

RECURSIVE Mul(_, _)
Mul(a, b) ==
    IF a = <<>> \/ b = <<>> THEN <<>>
    ELSE LET upper == Mul(a, Tail(b))
         IN  Add(MulLimb(a, b[1]), IF upper = <<>> THEN <<>> ELSE <<0>> \o upper)

\* the largest q in acc .. acc + 2^(bit+1) - 1 with q * d <= r
RECURSIVE QuotientLimb(_, _, _, _)
QuotientLimb(r, d, bit, acc) ==
    IF bit < 0 THEN acc
    ELSE IF Leq(MulLimb(d, acc + 2 ^ bit), r)
         THEN QuotientLimb(r, d, bit - 1, acc + 2 ^ bit)
         ELSE QuotientLimb(r, d, bit - 1, acc)

\* [q, r] with n = q * m + r and r < m, for a one-limb divisor 0 < m <= 2^15
RECURSIVE DivModSmall(_, _)
DivModSmall(n, m) ==
    IF n = <<>> THEN [q |-> <<>>, r |-> 0]
    ELSE LET h == DivModSmall(Tail(n), m)
             r2 == h.r * Base + n[1]
         IN  [q |-> Norm(<<r2 \div m>> \o h.q), r |-> r2 % m]

\* [q, r] with n = q * d + r and r < d, for d # 0
RECURSIVE DivModLong(_, _)
DivModLong(n, d) ==
    IF n = <<>> THEN [q |-> <<>>, r |-> <<>>]
    ELSE LET h == DivModLong(Tail(n), d)
             r2 == Norm(<<n[1]>> \o h.r)
             ql == QuotientLimb(r2, d, 15, 0)
         IN  [q |-> Norm(<<ql>> \o h.q), r |-> Sub(r2, MulLimb(d, ql))]

DivMod(n, d) ==
    IF Len(d) = 1 /\ d[1] <= 2 ^ 15
    THEN LET s == DivModSmall(n, d[1]) IN [q |-> s.q, r |-> N(s.r)]
    ELSE DivModLong(n, d)

Div(n, d) == DivMod(n, d).q

Mod(n, d) == DivMod(n, d).r

\* the number of significant bits
RECURSIVE BitLenInt(_)
BitLenInt(l) == IF l = 0 THEN 0 ELSE 1 + BitLenInt(l \div 2)

BitLen(a) == IF a = <<>> THEN 0 ELSE 16 * (Len(a) - 1) + BitLenInt(a[Len(a)])

Shl(a, k) == Mul(a, Pow2(k))

\* a \div 2^k
Shr(a, k) ==
    IF Len(a) <= k \div 16 THEN <<>>
    ELSE DivModSmall(SubSeq(a, k \div 16 + 1, Len(a)), 2 ^ (k % 16)).q

\* a % 2^k
LowBits(a, k) ==
    IF Len(a) <= k \div 16 THEN a
    ELSE Norm(SubSeq(a, 1, k \div 16) \o <<a[k \div 16 + 1] % (2 ^ (k % 16))>>)

(***************************************************************************)
(* Text: characters, and the Display formatting of unsigned integers.      *)
(***************************************************************************)
ESC == "U+001B"
ROBOT == "U+1F916"
BAR_CHART == "U+1F4CA"
HIGH_VOLTAGE == "U+26A1"
CALENDAR == "U+1F4C5"
FILE_FOLDER == "U+1F4C1"
HERB == "U+1F33F"
PAGE_FACING_UP == "U+1F4C4"
WARNING_SIGN == "U+26A0"
VS16 == "U+FE0F"
RED_CIRCLE == "U+1F534"
UP_ARROW == "U+2191"
DOWN_ARROW == "U+2193"

Digit(d) == <<"0", "1", "2", "3", "4", "5", "6", "7", "8", "9">>[d + 1]

\* format!("{}", n) for an unsigned integer n
RECURSIVE Decimal(_)
Decimal(b) ==
    LET dm == DivMod(b, N(10))
    IN  IF dm.q = <<>> THEN <<Digit(Val(dm.r))>>
        ELSE Decimal(dm.q) \o <<Digit(Val(dm.r))>>

\* zero-padded two-digit field of chrono's %m %d %H %M
Pad2(n) == <<Digit(n \div 10), Digit(n % 10)>>

RECURSIVE Concat(_)
Concat(ss) == IF ss = <<>> THEN <<>> ELSE Head(ss) \o Concat(Tail(ss))

\* [T]::join(sep)
RECURSIVE join(_, _)
join(parts, sep) ==
    IF parts = <<>> THEN <<>>
    ELSE IF Len(parts) = 1 THEN parts[1]
    ELSE parts[1] \o sep \o join(Tail(parts), sep)

SEPARATOR == <<" ", "|", " ">>

(***************************************************************************)
(* display/colors.rs                                                       *)
(***************************************************************************)
GREEN == [r |-> 0, g |-> 255, b |-> 0]
YELLOW == [r |-> 255, g |-> 255, b |-> 0]
RED == [r |-> 255, g |-> 100, b |-> 100]
RESET == <<ESC, "[", "0", "m">>

to_ansi(c) ==
    <<ESC, "[", "3", "8", ";", "2", ";">> \o Decimal(N(c.r)) \o <<";">>
        \o Decimal(N(c.g)) \o <<";">> \o Decimal(N(c.b)) \o <<"m">>

colorize(c, text) == to_ansi(c) \o text \o RESET

(***************************************************************************)
(* domain/usage.rs                                                         *)
(***************************************************************************)
Panic == "panic"

U8_MAX == 255

Min(a, b) == IF a < b THEN a ELSE b

\* UsagePercentage::new on a u8
\* mutant: the raw value is stored as given
UsagePercentage_new_unclamped(value) == value

UsagePercentage_new(value) == Min(value, 100)

\* An f64 is NaN, an infinity, or the finite value q / 4 (q an integer).
\* f64::round: to the nearest integer, halves away from zero.
f64_round(x) ==
    IF x.kind # "finite" THEN x
    ELSE [kind |-> "finite",
          q |-> IF x.q >= 0 THEN 4 * ((2 * x.q + 4) \div 8)
                ELSE -(4 * ((2 * (-x.q) + 4) \div 8))]

\* f64::clamp(0.0, 100.0): NaN stays NaN
f64_clamp_0_100(x) ==
    IF x.kind = "nan" THEN x
    ELSE IF x.kind = "neg_inf" THEN [kind |-> "finite", q |-> 0]
    ELSE IF x.kind = "inf" THEN [kind |-> "finite", q |-> 400]
    ELSE IF x.q < 0 THEN [kind |-> "finite", q |-> 0]
    ELSE IF x.q > 400 THEN [kind |-> "finite", q |-> 400]
    ELSE x

\* `as u8`: truncates toward zero, saturates, NaN becomes 0
f64_as_u8(x) ==
    IF x.kind = "nan" THEN 0
    ELSE IF x.kind = "neg_inf" THEN 0
    ELSE IF x.kind = "inf" THEN U8_MAX
    ELSE IF x.q < 0 THEN 0
    ELSE Min(x.q \div 4, U8_MAX)

UsagePercentage_from_float(value) ==
    UsagePercentage_new(f64_as_u8(f64_clamp_0_100(f64_round(value))))

UsagePercentage_threshold(v) ==
    IF v \in 0..49 THEN "Normal"
    ELSE IF v \in 50..74 THEN "Warning"
    ELSE IF v \in 75..100 THEN "Critical"
    ELSE Panic

\* UsageThreshold::color, ContextThreshold::color, SizeThreshold::color
color(threshold) ==
    CASE threshold = "Normal" -> GREEN
      [] threshold = "Warning" -> YELLOW
      [] threshold = "Critical" -> RED

\* ContextThreshold::indicator, SizeThreshold::indicator
indicator(threshold) ==
    CASE threshold = "Normal" -> <<>>
      [] threshold = "Warning" -> <<WARNING_SIGN, VS16>>
      [] threshold = "Critical" -> <<RED_CIRCLE>>

\* A DateTime<Utc> is the number of minutes since 1 January, 00:00 UTC, of a
\* 365-day year; tz is the offset of the Local timezone in minutes.
MonthDays == <<31, 28, 31, 30, 31, 30, 31, 31, 30, 31, 30, 31>>

RECURSIVE MonthDay(_, _)
MonthDay(d, m) ==
    IF d < MonthDays[m] THEN [month |-> m, day |-> d + 1]
    ELSE MonthDay(d - MonthDays[m], m + 1)

\* DateTime::with_timezone(&Local)
with_timezone(t, offset) == (t + offset) % (365 * 1440)

\* CycleInfo::new
CycleInfo_new(utilization, resets_at) ==
    [utilization |-> utilization, resets_at |-> resets_at]

format_reset_local(cycle) ==
    LET local == with_timezone(cycle.resets_at, tz)
        md == MonthDay(local \div 1440, 1)
        hm == local % 1440
    IN  Pad2(md.month) \o <<"/">> \o Pad2(md.day) \o <<" ">>
            \o Pad2(hm \div 60) \o <<":">> \o Pad2(hm % 60)

(***************************************************************************)
(* domain/context.rs                                                       *)
(***************************************************************************)
U64_BITS == 64

WARNING_PCT == 70

CRITICAL_PCT == 90

ContextUsageInfo_new(used_tokens, total_tokens) ==
    [used_tokens |-> used_tokens, total_tokens |-> total_tokens]

\* a * b on u64: with overflow checks (the debug profile) an overflowing
\* product panics, without them (the release profile) it wraps modulo 2^64
u64_mul(a, b) ==
    LET product == Mul(a, b)
    IN  IF BitLen(product) <= U64_BITS THEN Ok(product)
        ELSE IF overflow_checks THEN Panicked
        ELSE Ok(LowBits(product, U64_BITS))

percentage(self) ==
    IF self.total_tokens = <<>> THEN Ok(<<>>)
    ELSE LET scaled == u64_mul(self.used_tokens, N(100))
         IN  IF ~scaled.ok THEN Panicked
             ELSE Ok(Div(scaled.val, self.total_tokens))

\* mutant: the warning tier starts one percent late
ContextUsageInfo_threshold_late(self) ==
    LET pct == percentage(self)
    IN  IF ~pct.ok THEN Panic
        ELSE IF Leq(pct.val, N(WARNING_PCT)) THEN "Normal"
        ELSE IF Less(pct.val, N(CRITICAL_PCT)) THEN "Warning"
        ELSE "Critical"

ContextUsageInfo_threshold(self) ==
    LET pct == percentage(self)
    IN  IF ~pct.ok THEN Panic
        ELSE IF Less(pct.val, N(WARNING_PCT)) THEN "Normal"
        ELSE IF Less(pct.val, N(CRITICAL_PCT)) THEN "Warning"
        ELSE "Critical"

ContextUsageInfo_format_display(self) ==
    LET pct == percentage(self)
    IN  IF ~pct.ok THEN Panicked ELSE Ok(Decimal(pct.val) \o <<"%">>)

(***************************************************************************)
(* domain/session.rs                                                       *)
(***************************************************************************)
WARNING_THRESHOLD == N(5 * 1024 * 1024)

CRITICAL_THRESHOLD == N(15 * 1024 * 1024)

F64_MANTISSA_BITS == 53

SessionSize_new(bytes) == bytes

SessionSize_threshold(self) ==
    IF Less(self, WARNING_THRESHOLD) THEN "Normal"
    ELSE IF Less(self, CRITICAL_THRESHOLD) THEN "Warning"
    ELSE "Critical"

\* `as f64` on a u64: the nearest value with a 53-bit mantissa, ties to the
\* even mantissa.  The result is an integer, given exactly.
u64_as_f64(x) ==
    IF BitLen(x) <= F64_MANTISSA_BITS THEN x
    ELSE LET k == BitLen(x) - F64_MANTISSA_BITS
             high == Shr(x, k)
             low == LowBits(x, k)
             half == Pow2(k - 1)
             up == Less(half, low) \/ (low = half /\ IsOdd(high))
         IN  Shl(IF up THEN Add(high, <<1>>) ELSE high, k)

\* format!("{:.1}", m / 2^shift) for the f64 m / 2^shift (the division by a
\* power of two is exact): the nearest decimal with one fractional digit,
\* an exact tie going to the even digit
fmt_f64_1(m, shift) ==
    LET scaled == MulSmall(m, 10)
        whole == Shr(scaled, shift)
        rest == LowBits(scaled, shift)
        half == Pow2(shift - 1)
        up == Less(half, rest) \/ (rest = half /\ IsOdd(whole))
        tenths == DivMod(IF up THEN Add(whole, <<1>>) ELSE whole, N(10))
    IN  Decimal(tenths.q) \o <<".">> \o Decimal(tenths.r)

\* mutant: exactly one megabyte is still shown in kilobytes
SessionSize_format_display_above(self) ==
    LET KB == N(1024)
        MB == N(1024 * 1024)
    IN  IF Less(MB, self)
        THEN fmt_f64_1(u64_as_f64(self), 20) \o <<"M", "B">>
        ELSE Decimal(Div(self, KB)) \o <<"K", "B">>

SessionSize_format_display(self) ==
    LET KB == N(1024)
        MB == N(1024 * 1024)
    IN  IF Leq(MB, self)
        THEN fmt_f64_1(u64_as_f64(self), 20) \o <<"M", "B">>
        ELSE Decimal(Div(self, KB)) \o <<"K", "B">>

(***************************************************************************)
(* domain/git.rs                                                           *)
(***************************************************************************)
NotRepo == [tag |-> "NotRepo"]

Repo(status) == [tag |-> "Repo", status |-> status]

Branch(name) == [tag |-> "Branch", text |-> name]

Detached(hash) == [tag |-> "Detached", text |-> hash]

\* mutant: the untracked mark comes before the modified mark
format_indicators_swapped(self) ==
    LET i1 == IF self.untracked THEN <<"?">> ELSE <<>>
        i2 == IF self.modified THEN i1 \o <<"*">> ELSE i1
        i3 == IF self.ahead > 0
              THEN i2 \o <<UP_ARROW>> \o Decimal(N(self.ahead)) ELSE i2
        i4 == IF self.behind > 0
              THEN i3 \o <<DOWN_ARROW>> \o Decimal(N(self.behind)) ELSE i3
    IN  i4

format_indicators(self) ==
    LET i1 == IF self.modified THEN <<"*">> ELSE <<>>
        i2 == IF self.untracked THEN i1 \o <<"?">> ELSE i1
        i3 == IF self.ahead > 0
              THEN i2 \o <<UP_ARROW>> \o Decimal(N(self.ahead)) ELSE i2
        i4 == IF self.behind > 0
              THEN i3 \o <<DOWN_ARROW>> \o Decimal(N(self.behind)) ELSE i3
    IN  i4

format_branch(self) ==
    IF self.branch.tag = "Branch" THEN self.branch.text
    ELSE <<"(">> \o self.branch.text \o <<")">>

format_full(self) ==
    LET branch == format_branch(self)
        indicators == format_indicators(self)
    IN  IF indicators = <<>> THEN branch ELSE branch \o indicators

(***************************************************************************)
(* domain/input.rs: Model                                                  *)
(***************************************************************************)
Model_from_display_name(name) == [display_name |-> name]

\* mutant: the name is abbreviated to its first and last character
display_name_short(self) ==
    <<self.display_name[1], self.display_name[Len(self.display_name)]>>

display_name(self) == self.display_name

(***************************************************************************)
(* error.rs: StatusLineError, given by its kind and the detail it carries  *)
(***************************************************************************)
StatusLineError(kind, detail) == [kind |-> kind, detail |-> detail]

ErrorKinds ==
    {"CredentialsNotFound", "KeychainAccess", "ApiRequest", "ApiResponse",
     "InvalidInput", "Io", "Git", "TimestampParse"}

\* the #[error("...")] text of each kind, before the detail
ErrorPrefix(kind) ==
    CASE kind = "CredentialsNotFound" ->
        <<"K", "e", "y", "c", "h", "a", "i", "n", " ", "c", "r", "e", "d",
          "e", "n", "t", "i", "a", "l", "s", " ", "n", "o", "t", " ", "f",
          "o", "u", "n", "d", ":", " ", "a", "u", "t", "h", "e", "n", "t",
          "i", "c", "a", "t", "e", " ", "w", "i", "t", "h", " ", "C", "l",
          "a", "u", "d", "e", " ", "C", "o", "d", "e", " ", "f", "i", "r",
          "s", "t">>
      [] kind = "KeychainAccess" ->
        <<"K", "e", "y", "c", "h", "a", "i", "n", " ", "a", "c", "c", "e",
          "s", "s", " ", "d", "e", "n", "i", "e", "d", ":", " ">>
      [] kind = "ApiRequest" ->
        <<"A", "P", "I", " ", "r", "e", "q", "u", "e", "s", "t", " ", "f",
          "a", "i", "l", "e", "d", ":", " ">>
      [] kind = "ApiResponse" ->
        <<"A", "P", "I", " ", "r", "e", "s", "p", "o", "n", "s", "e", " ",
          "i", "n", "v", "a", "l", "i", "d", ":", " ">>
      [] kind = "InvalidInput" ->
        <<"I", "n", "v", "a", "l", "i", "d", " ", "J", "S", "O", "N", " ",
          "i", "n", "p", "u", "t", ":", " ">>
      [] kind = "Io" -> <<"I", "O", " ", "e", "r", "r", "o", "r", ":", " ">>
      [] kind = "Git" ->
        <<"G", "i", "t", " ", "c", "o", "m", "m", "a", "n", "d", " ", "f",
          "a", "i", "l", "e", "d", ":", " ">>
      [] kind = "TimestampParse" ->
        <<"I", "n", "v", "a", "l", "i", "d", " ", "t", "i", "m", "e", "s",
          "t", "a", "m", "p", ":", " ">>

\* impl Display (derived by thiserror): the text of the kind, then the detail
Display(e) == ErrorPrefix(e.kind) \o e.detail

\* mutant: a git failure gets a label like the others
brief_with_git(self) ==
    CASE self.kind \in {"CredentialsNotFound", "KeychainAccess"} -> <<"N", "o", " ", "c", "r", "e", "d", "s">>
      [] self.kind \in {"ApiRequest", "ApiResponse"} -> <<"A", "P", "I", " ", "e", "r", "r", "o", "r">>
      [] self.kind = "InvalidInput" -> <<"B", "a", "d", " ", "i", "n", "p", "u", "t">>
      [] self.kind = "Io" -> <<"I", "O", " ", "e", "r", "r", "o", "r">>
      [] self.kind = "Git" -> <<"G", "i", "t", " ", "e", "r", "r", "o", "r">>
      [] self.kind = "TimestampParse" -> <<"P", "a", "r", "s", "e", " ", "e", "r", "r", "o", "r">>

brief(self) ==
    CASE self.kind \in {"CredentialsNotFound", "KeychainAccess"} -> <<"N", "o", " ", "c", "r", "e", "d", "s">>
      [] self.kind \in {"ApiRequest", "ApiResponse"} -> <<"A", "P", "I", " ", "e", "r", "r", "o", "r">>
      [] self.kind = "InvalidInput" -> <<"B", "a", "d", " ", "i", "n", "p", "u", "t">>
      [] self.kind = "Io" -> <<"I", "O", " ", "e", "r", "r", "o", "r">>
      [] self.kind = "Git" -> <<>>
      [] self.kind = "TimestampParse" -> <<"P", "a", "r", "s", "e", " ", "e", "r", "r", "o", "r">>

\* mutant: no error is shown in the status line
show_in_status_line_never(self) == FALSE

show_in_status_line(self) == brief(self) # <<>>

(***************************************************************************)
(* display/status_line.rs: StatusLineBuilder                               *)
(***************************************************************************)
StatusLineBuilder_new ==
    [project_name |-> None, git_status |-> None, model |-> None,
     context_usage |-> None, five_hour |-> None, seven_day |-> None,
     session_size |-> None, error_message |-> None]

project_name(self, name) == [self EXCEPT !.project_name = Some(name)]

git_status(self, status) == [self EXCEPT !.git_status = Some(status)]

model(self, m) == [self EXCEPT !.model = Some(m)]

context_usage(self, usage) == [self EXCEPT !.context_usage = Some(usage)]

\* mutant: the 5-hour setter writes the 7-day field
five_hour_sets_seven_day(self, cycle) == [self EXCEPT !.seven_day = Some(cycle)]

five_hour(self, cycle) == [self EXCEPT !.five_hour = Some(cycle)]

\* mutant: setting the 7-day cycle takes the error message away
seven_day_clears_error(self, cycle) ==
    [self EXCEPT !.seven_day = Some(cycle), !.error_message = None]

seven_day(self, cycle) == [self EXCEPT !.seven_day = Some(cycle)]

session_size(self, size) == [self EXCEPT !.session_size = Some(size)]

error(self, message) == [self EXCEPT !.error_message = Some(message)]

\* mutant: the cycle segments get the tier's glyph like the other coloured
\* segments
cycle_segment_with_indicator(emoji, cycle) ==
    LET pct == cycle.utilization
        threshold == UsagePercentage_threshold(cycle.utilization)
        colored_pct == colorize(color(threshold), Decimal(N(pct)) \o <<"%">>)
        reset == format_reset_local(cycle)
    IN  <<emoji, " ">> \o colored_pct \o indicator(threshold)
            \o <<" ", "@">> \o reset

\* the "⚡ ..." and "📅 ..." segments
cycle_segment(emoji, cycle) ==
    LET pct == cycle.utilization
        colored_pct ==
            colorize(color(UsagePercentage_threshold(cycle.utilization)),
                     Decimal(N(pct)) \o <<"%">>)
        reset == format_reset_local(cycle)
    IN  <<emoji, " ">> \o colored_pct \o <<" ", "@">> \o reset

\* mutant: the glyph is coloured together with the value
tiered_segment_glyph_inside(emoji, threshold, display) ==
    <<emoji, " ">> \o colorize(color(threshold), display \o indicator(threshold))

\* the "📊 ..." and "📄 ..." segments
tiered_segment(emoji, threshold, display) ==
    LET colored_display == colorize(color(threshold), display)
    IN  IF indicator(threshold) = <<>>
        THEN <<emoji, " ">> \o colored_display
        ELSE <<emoji, " ">> \o colored_display \o indicator(threshold)

\* lines 80-83: the model segment
push_model(self, parts) ==
    IF self.model # None
    THEN Append(parts, <<ROBOT, " ">> \o display_name(self.model[1]))
    ELSE parts

\* lines 85-96: the context-usage segment
push_context_usage(self, parts) ==
    IF self.context_usage # None
    THEN LET ctx == self.context_usage[1]
         IN  Append(parts, tiered_segment(BAR_CHART,
                                          ContextUsageInfo_threshold(ctx),
                                          ContextUsageInfo_format_display(ctx).val))
    ELSE parts

\* mutant: the cycle segments follow the error segment instead of being
\* replaced by it
push_error_and_usage(self, parts) ==
    LET p0 == IF self.error_message # None
              THEN Append(parts, <<WARNING_SIGN, VS16, " ">> \o self.error_message[1])
              ELSE parts
        p1 == IF self.five_hour # None
              THEN Append(p0, cycle_segment(HIGH_VOLTAGE, self.five_hour[1]))
              ELSE p0
        p2 == IF self.seven_day # None
              THEN Append(p1, cycle_segment(CALENDAR, self.seven_day[1]))
              ELSE p1
    IN  p2

\* mutant: the 7-day segment is pushed inside the 5-hour branch
push_error_or_usage_nested(self, parts) ==
    IF self.error_message # None
    THEN Append(parts, <<WARNING_SIGN, VS16, " ">> \o self.error_message[1])
    ELSE IF self.five_hour # None
    THEN LET p1 == Append(parts, cycle_segment(HIGH_VOLTAGE, self.five_hour[1]))
         IN  IF self.seven_day # None
             THEN Append(p1, cycle_segment(CALENDAR, self.seven_day[1]))
             ELSE p1
    ELSE parts

\* lines 98-119: the error segment, or else the cycle segments
push_error_or_usage(self, parts) ==
    IF self.error_message # None
    THEN Append(parts, <<WARNING_SIGN, VS16, " ">> \o self.error_message[1])
    ELSE LET p1 == IF self.five_hour # None
                   THEN Append(parts, cycle_segment(HIGH_VOLTAGE, self.five_hour[1]))
                   ELSE parts
             p2 == IF self.seven_day # None
                   THEN Append(p1, cycle_segment(CALENDAR, self.seven_day[1]))
                   ELSE p1
         IN  p2

\* mutant: the project name is put first, where it was before the model
\* segment moved to the front
push_project_name_first(self, parts) ==
    IF self.project_name # None
    THEN <<<<FILE_FOLDER, " ">> \o self.project_name[1]>> \o parts
    ELSE parts

\* lines 121-124: the project-name segment
push_project_name(self, parts) ==
    IF self.project_name # None
    THEN Append(parts, <<FILE_FOLDER, " ">> \o self.project_name[1])
    ELSE parts

\* mutant: a status that is set but is not a repository leaves a bare emoji
push_git_status_placeholder(self, parts) ==
    IF self.git_status = None THEN parts
    ELSE IF self.git_status[1].tag = "Repo"
    THEN Append(parts, <<HERB, " ">> \o format_full(self.git_status[1].status))
    ELSE Append(parts, <<HERB, " ">>)

\* lines 126-129: the git segment
push_git_status(self, parts) ==
    IF self.git_status # None /\ self.git_status[1].tag = "Repo"
    THEN Append(parts, <<HERB, " ">> \o format_full(self.git_status[1].status))
    ELSE parts

\* lines 131-143: the session-size segment
push_session_size(self, parts) ==
    IF self.session_size # None
    THEN LET size == self.session_size[1]
         IN  Append(parts, tiered_segment(PAGE_FACING_UP,
                                          SessionSize_threshold(size),
                                          SessionSize_format_display(size)))
    ELSE parts

\* the Vec `parts` at the end of build()
build_parts(self) ==
    push_session_size(self,
      push_git_status(self,
        push_project_name(self,
          push_error_or_usage(self,
            push_context_usage(self,
              push_model(self, <<>>))))))

\* mutant: every part is followed by the separator, the last one too
build_trailing_separator(self) ==
    IF self.context_usage # None
       /\ ContextUsageInfo_threshold(self.context_usage[1]) = Panic
    THEN Panicked
    ELSE IF build_parts(self) = <<>> THEN Ok(<<>>)
    ELSE Ok(join(build_parts(self), SEPARATOR) \o SEPARATOR)

\* build(): panics where ContextUsageInfo::percentage panics, else returns
\* the parts joined by " | "
build(self) ==
    IF self.context_usage # None
       /\ ContextUsageInfo_threshold(self.context_usage[1]) = Panic
    THEN Panicked
    ELSE Ok(join(build_parts(self), SEPARATOR))

\* mutant: build() takes the error message out of the builder
after_build_take_error(self) == [self EXCEPT !.error_message = None]

\* build(&self) borrows the builder: it is the same after the call
after_build(self) == self

(***************************************************************************)
(* The values the builder is given.                                        *)
(***************************************************************************)
ProjectNames == {<<"t", "e", "s", "t">>}

DisplayNames == {<<"S", "o", "n", "n", "e", "t", " ", "4">>}

ErrorMessages == {<<"N", "o", " ", "c", "r", "e", "d", "s">>}

main == <<"m", "a", "i", "n">>

abc1234 == <<"a", "b", "c", "1", "2", "3", "4">>

GitRepoStatus(branch, modified, untracked, ahead, behind) ==
    [branch |-> branch, modified |-> modified, untracked |-> untracked,
     ahead |-> ahead, behind |-> behind]

GitStatusValues ==
    {NotRepo,
     Repo(GitRepoStatus(Branch(main), FALSE, FALSE, 0, 0)),
     Repo(GitRepoStatus(Detached(abc1234), TRUE, TRUE, 2, 1))}

\* 25% (Normal), 75% (Warning), 150% (used > total), and a used count
\* whose product with 100 exceeds 64 bits
ContextUsageValues ==
    {ContextUsageInfo_new(N(50), N(200)),
     ContextUsageInfo_new(N(150), N(200)),
     ContextUsageInfo_new(N(300), N(200)),
     ContextUsageInfo_new(Pow2(63), N(200))}

\* the 5-hour cycle given: Normal, resetting at 1 January 00:30 UTC
CycleValues == {CycleInfo_new(UsagePercentage_new(35), 30)}

\* the 7-day cycles given: Warning, resetting at 1 March 23:59 UTC, and
\* Critical, resetting at 1 January 02:00 UTC
SevenDayValues ==
    {CycleInfo_new(UsagePercentage_new(68), 59 * 1440 + 23 * 60 + 59),
     CycleInfo_new(UsagePercentage_new(90), 120)}

\* one size of each tier
SessionSizeValues ==
    {SessionSize_new(N(512 * 1024)), SessionSize_new(N(8 * 1024 * 1024)),
     SessionSize_new(N(20 * 1024 * 1024))}

\* offsets of the Local timezone, in minutes
TzOffsets == {-300}

\* the most build() calls in a row that are followed
MaxBuilds == 2

(***************************************************************************)
(* The builder as a state machine, one action per method.  `call` is the   *)
(* last call (method and argument), `ret` what build() returned if the     *)
(* last call was build(), `builds` the number of build() calls since the   *)
(* last setter.                                                            *)
(***************************************************************************)
Call(fn, arg) == Some([fn |-> fn, arg |-> arg])

Env == <<tz, overflow_checks, Proc>>

Init ==
    /\ builder = StatusLineBuilder_new
    /\ builds = 0
    /\ tz \in TzOffsets
    /\ overflow_checks \in BOOLEAN
    /\ call = None
    /\ ret = None
    /\ ProcIdle

SetProjectName ==
    \E name \in ProjectNames :
        /\ builder' = project_name(builder, name)
        /\ call' = Call("project_name", name)
        /\ ret' = None
        /\ builds' = 0
        /\ UNCHANGED Env

SetGitStatus ==
    \E status \in GitStatusValues :
        /\ builder' = git_status(builder, status)
        /\ call' = Call("git_status", status)
        /\ ret' = None
        /\ builds' = 0
        /\ UNCHANGED Env

SetModel ==
    \E name \in DisplayNames :
        /\ builder' = model(builder, Model_from_display_name(name))
        /\ call' = Call("model", Model_from_display_name(name))
        /\ ret' = None
        /\ builds' = 0
        /\ UNCHANGED Env

SetContextUsage ==
    \E usage \in ContextUsageValues :
        /\ builder' = context_usage(builder, usage)
        /\ call' = Call("context_usage", usage)
        /\ ret' = None
        /\ builds' = 0
        /\ UNCHANGED Env

SetFiveHour ==
    \E cycle \in CycleValues :
        /\ builder' = five_hour(builder, cycle)
        /\ call' = Call("five_hour", cycle)
        /\ ret' = None
        /\ builds' = 0
        /\ UNCHANGED Env

SetSevenDay ==
    \E cycle \in SevenDayValues :
        /\ builder' = seven_day(builder, cycle)
        /\ call' = Call("seven_day", cycle)
        /\ ret' = None
        /\ builds' = 0
        /\ UNCHANGED Env

SetSessionSize ==
    \E size \in SessionSizeValues :
        /\ builder' = session_size(builder, size)
        /\ call' = Call("session_size", size)
        /\ ret' = None
        /\ builds' = 0
        /\ UNCHANGED Env

SetError ==
    \E message \in ErrorMessages :
        /\ builder' = error(builder, message)
        /\ call' = Call("error", message)
        /\ ret' = None
        /\ builds' = 0
        /\ UNCHANGED Env

Build ==
    /\ builds < MaxBuilds
    /\ ret' = Some(build(builder))
    /\ builder' = after_build(builder)
    /\ call' = Call("build", <<>>)
    /\ builds' = builds + 1
    /\ UNCHANGED Env

Next ==
    \/ SetProjectName
    \/ SetGitStatus
    \/ SetModel
    \/ SetContextUsage
    \/ SetFiveHour
    \/ SetSevenDay
    \/ SetSessionSize
    \/ SetError
    \/ Build

Spec == Init /\ [][Next]_vars

(***************************************************************************)
(* Reading a status line back: its segments, and what each one is.         *)
(***************************************************************************)
IsPrefix(p, t) == Len(p) <= Len(t) /\ SubSeq(t, 1, Len(p)) = p

SeparatorsAt(line) ==
    {i \in 1..(Len(line) - 2) : SubSeq(line, i, i + 2) = SEPARATOR}

\* the pieces of a line between its separators, in order
Segments(line) ==
    IF line = <<>> THEN <<>>
    ELSE LET seps == SeparatorsAt(line)
             starts == {1} \cup {i + 3 : i \in seps}
             nth(k) == CHOOSE st \in starts :
                           Cardinality({t \in starts : t < st}) = k - 1
             stop(st) == CHOOSE e \in seps \cup {Len(line) + 1} :
                             /\ e >= st
                             /\ \A f \in seps : f >= st => e <= f
         IN  [k \in 1..Cardinality(starts) |->
                 SubSeq(line, nth(k), stop(nth(k)) - 1)]

IsErrorSegment(seg) == IsPrefix(<<WARNING_SIGN, VS16, " ">>, seg)

\* the place of a segment in the fixed order, 0 if it is no segment at all
SegmentRank(seg) ==
    IF IsPrefix(<<ROBOT, " ">>, seg) THEN 1
    ELSE IF IsPrefix(<<BAR_CHART, " ">>, seg) THEN 2
    ELSE IF IsErrorSegment(seg) THEN 3
    ELSE IF IsPrefix(<<HIGH_VOLTAGE, " ">>, seg) THEN 3
    ELSE IF IsPrefix(<<CALENDAR, " ">>, seg) THEN 4
    ELSE IF IsPrefix(<<FILE_FOLDER, " ">>, seg) THEN 5
    ELSE IF IsPrefix(<<HERB, " ">>, seg) THEN 6
    ELSE IF IsPrefix(<<PAGE_FACING_UP, " ">>, seg) THEN 7
    ELSE 0

Built == ret # None /\ builds > 0

Returned == Built /\ ret[1].ok

One(cond) == IF cond THEN 1 ELSE 0

\* how many fields of the builder contribute a segment
Contributing(b) ==
    One(b.model # None) + One(b.context_usage # None)
    + (IF b.error_message # None THEN 1
       ELSE One(b.five_hour # None) + One(b.seven_day # None))
    + One(b.project_name # None)
    + One(b.git_status # None /\ b.git_status[1].tag = "Repo")
    + One(b.session_size # None)

(***************************************************************************)
(* C1  Error override: whenever build() returns a line for a builder with  *)
(* an error message set, the line has exactly one error segment, that      *)
(* segment is the warning sign followed by the message, and neither the    *)
(* 5-hour nor the 7-day emoji occurs anywhere in the line, whatever else   *)
(* is set and in whatever order it was set.                                *)
(***************************************************************************)
C1_ErrorOverride ==
    (Returned /\ builder.error_message # None) =>
        LET line == ret[1].val
            segs == Segments(line)
        IN  /\ Cardinality({k \in DOMAIN segs : IsErrorSegment(segs[k])}) = 1
            /\ \E k \in DOMAIN segs :
                   segs[k] = <<WARNING_SIGN, VS16, " ">> \o builder.error_message[1]
            /\ \A i \in DOMAIN line : line[i] \notin {HIGH_VOLTAGE, CALENDAR}

C1_Witness ==
    /\ Returned
    /\ builder.error_message # None
    /\ builder.five_hour # None
    /\ builder.seven_day # None
    /\ Len(Segments(ret[1].val)) = 1

(***************************************************************************)
(* C2  Fixed segment order: whenever build() returns a line, the line is   *)
(* its segments joined by " | ", there is one segment per contributing     *)
(* field, every segment is one of the seven kinds, and the kinds come in   *)
(* the order model, context usage, error or 5-hour, 7-day, project name,   *)
(* git, session size, none of them twice.                                  *)
(***************************************************************************)
C2_FixedOrder ==
    Returned =>
        LET line == ret[1].val
            segs == Segments(line)
        IN  /\ line = join(segs, SEPARATOR)
            /\ Len(segs) = Contributing(builder)
            /\ \A k \in DOMAIN segs : SegmentRank(segs[k]) > 0
            /\ \A j, k \in DOMAIN segs :
                   j < k => SegmentRank(segs[j]) < SegmentRank(segs[k])

C2_Witness ==
    /\ Returned
    /\ builder.error_message = None
    /\ Contributing(builder) = 7
    /\ [k \in 1..7 |-> SegmentRank(Segments(ret[1].val)[k])]
           = <<1, 2, 3, 4, 5, 6, 7>>

SetterNames ==
    {"project_name", "git_status", "model", "context_usage", "five_hour",
     "seven_day", "session_size", "error"}

FieldOf(fn) == IF fn = "error" THEN "error_message" ELSE fn

C4_SetterFrame ==
    [][(call' # None /\ call'[1].fn \in SetterNames) =>
          /\ builder'[FieldOf(call'[1].fn)] = Some(call'[1].arg)
          /\ \A g \in DOMAIN builder \ {FieldOf(call'[1].fn)} :
                 builder'[g] = builder[g]
          /\ (call # None /\ call[1].fn = call'[1].fn /\ call[1].arg = call'[1].arg
                  => builder' = builder)]_vars

C4_Witness ==
    /\ call = Call("five_hour", CycleInfo_new(UsagePercentage_new(35), 30))
    /\ builder.five_hour = Some(call[1].arg)
    /\ builder.seven_day # None
    /\ builder.seven_day # builder.five_hour
    /\ builder.error_message # None
    /\ builder.project_name # None

(***************************************************************************)
(* The domain functions on their own: one action per constructor, each     *)
(* applying the type's methods to the value constructed from an input      *)
(* drawn from the sets below.  `call` is the constructor call, `ret` the   *)
(* record of what the methods returned.  The functions keep no state, so   *)
(* a behaviour is one call.                                                *)
(***************************************************************************)
\* the largest |p| of the floats given to from_float, which are the
\* multiples of 0.25 up to it, NaN and the two infinities
MaxFloat == 130

\* the largest of the consecutive token counts 0..MaxTokens
MaxTokens == 250

\* session sizes step through 0..MaxSizeSteps tenths of a mebibyte
MaxSizeSteps == 160

\* the largest ahead / behind commit count
MaxAhead == 11

Finite(q) == [kind |-> "finite", q |-> q]

FloatValues ==
    {Finite(q) : q \in (-4 * MaxFloat)..(4 * MaxFloat)}
        \cup {[kind |-> k, q |-> 0] : k \in {"nan", "inf", "neg_inf"}}

U64_MAX == Sub(Pow2(U64_BITS), <<1>>)

UsedTokenValues ==
    {N(k) : k \in 0..MaxTokens}
        \cup {N(50000), N(139999), N(140000), N(179999), N(180000),
              Div(U64_MAX, N(100)), Add(Div(U64_MAX, N(100)), <<1>>),
              Pow2(63), U64_MAX}

TotalTokenValues ==
    {N(0), N(1), N(100), N(200), N(200000), Pow2(63), U64_MAX}

ByteValues ==
    {N(k * 104858) : k \in 0..MaxSizeSteps}
        \cup {N(1023), N(1024), N(1048575), N(1048576), N(1310720),
              N(1835008), N(5242879), N(5242880), N(15728639), N(15728640),
              Pow2(53), Add(Pow2(53), N(786431)), Add(Pow2(53), N(786432)),
              U64_MAX}

BranchValues == {Branch(main), Detached(abc1234)}

\* what a failing collaborator reports
ErrorDetails == {<<"d", "e", "n", "i", "e", "d">>, <<"t", "i", "m", "e", "d", " ", "o", "u", "t">>}

FnIdle == UNCHANGED <<builder, builds, tz, overflow_checks, Proc>>

InitFn ==
    /\ builder = StatusLineBuilder_new
    /\ builds = 0
    /\ tz \in TzOffsets
    /\ overflow_checks \in BOOLEAN
    /\ call = None
    /\ ret = None
    /\ ProcIdle

CallUsagePercentageNew ==
    /\ call = None
    /\ \E value \in 0..U8_MAX :
           /\ call' = Call("UsagePercentage::new", value)
           /\ ret' = LET p == UsagePercentage_new(value)
                     IN  Some([value |-> p,
                               threshold |-> UsagePercentage_threshold(p)])
           /\ FnIdle

CallUsagePercentageFromFloat ==
    /\ call = None
    /\ \E value \in FloatValues :
           /\ call' = Call("UsagePercentage::from_float", value)
           /\ ret' = LET p == UsagePercentage_from_float(value)
                     IN  Some([value |-> p,
                               threshold |-> UsagePercentage_threshold(p)])
           /\ FnIdle

CallContextUsageInfo ==
    /\ call = None
    /\ \E used \in UsedTokenValues, total \in TotalTokenValues :
           /\ call' = Call("ContextUsageInfo::new",
                           [used_tokens |-> used, total_tokens |-> total])
           /\ ret' = LET c == ContextUsageInfo_new(used, total)
                     IN  Some([percentage |-> percentage(c),
                               threshold |-> ContextUsageInfo_threshold(c),
                               format_display |-> ContextUsageInfo_format_display(c)])
           /\ FnIdle

CallSessionSize ==
    /\ call = None
    /\ \E bytes \in ByteValues :
           /\ call' = Call("SessionSize::new", bytes)
           /\ ret' = LET z == SessionSize_new(bytes)
                     IN  Some([threshold |-> SessionSize_threshold(z),
                               format_display |-> SessionSize_format_display(z)])
           /\ FnIdle

CallGitRepoStatus ==
    /\ call = None
    /\ \E branch \in BranchValues, modified \in BOOLEAN, untracked \in BOOLEAN,
       ahead \in 0..MaxAhead, behind \in 0..MaxAhead :
           /\ call' = Call("GitRepoStatus",
                           GitRepoStatus(branch, modified, untracked, ahead, behind))
           /\ ret' = Some([format_full |-> format_full(call'[1].arg)])
           /\ FnIdle

CallStatusLineError ==
    /\ call = None
    /\ \E kind \in ErrorKinds, detail \in ErrorDetails :
           /\ call' = Call("StatusLineError",
                           StatusLineError(kind, IF kind = "CredentialsNotFound"
                                                 THEN <<>> ELSE detail))
           /\ ret' = Some([brief |-> brief(call'[1].arg),
                           show_in_status_line |-> show_in_status_line(call'[1].arg)])
           /\ FnIdle

Called(fn) == call # None /\ call[1].fn = fn

\* the tier of an integer measurement between two integer bounds
Tier(m, low, high) ==
    IF m < low THEN "Normal" ELSE IF m < high THEN "Warning" ELSE "Critical"

\* the same for exact naturals
TierNat(m, low, high) ==
    IF Less(m, low) THEN "Normal"
    ELSE IF Less(m, high) THEN "Warning"
    ELSE "Critical"

RoundQuarters(q) ==
    IF q >= 0 THEN (q + 2) \div 4 ELSE -((-q + 2) \div 4)

Clamp(n, low, high) == IF n < low THEN low ELSE IF n > high THEN high ELSE n

C6_Clamping ==
    /\ Called("UsagePercentage::new") =>
           /\ ret[1].value = (IF call[1].arg < 100 THEN call[1].arg ELSE 100)
           /\ ret[1].value \in 0..100
           /\ ret[1].threshold \in {"Normal", "Warning", "Critical"}
    /\ Called("UsagePercentage::from_float") =>
           /\ call[1].arg.kind = "finite"
                  => ret[1].value = Clamp(RoundQuarters(call[1].arg.q), 0, 100)
           /\ call[1].arg.kind = "inf" => ret[1].value = 100
           /\ call[1].arg.kind = "neg_inf" => ret[1].value = 0
           /\ ret[1].value \in 0..100
           /\ ret[1].threshold \in {"Normal", "Warning", "Critical"}

C6_Witness ==
    /\ Called("UsagePercentage::new")
    /\ call[1].arg = 150
    /\ ret[1].value = 100
    /\ ret[1].threshold = "Critical"

(***************************************************************************)
(* C7  The context-window percentage that percentage() returns is at most  *)
(* 100 for every pair of used and total token counts, and format_display() *)
(* shows that number followed by a percent sign.                           *)
(***************************************************************************)
C7_PercentageWithin100 ==
    (Called("ContextUsageInfo::new") /\ ret[1].percentage.ok) =>
        /\ Leq(ret[1].percentage.val, N(100))
        /\ ret[1].format_display = Ok(Decimal(ret[1].percentage.val) \o <<"%">>)

(***************************************************************************)
(* C8  percentage() returns for every pair of 64-bit token counts: 0 when  *)
(* the total is 0, and otherwise the integer part of used * 100 / total,   *)
(* the product taken exactly.                                              *)
(***************************************************************************)
C8_PercentageTotal ==
    Called("ContextUsageInfo::new") =>
        ret[1].percentage =
            Ok(IF call[1].arg.total_tokens = N(0) THEN N(0)
               ELSE Div(Mul(call[1].arg.used_tokens, N(100)),
                        call[1].arg.total_tokens))

(***************************************************************************)
(* Rounding to one decimal, stated on exact naturals.                      *)
(***************************************************************************)
AbsDiff(a, b) == IF Less(a, b) THEN Sub(b, a) ELSE Sub(a, b)

\* the numbers of tenths nearest to x / 2^20 (two of them at an exact tie)
NearestTenths(x) ==
    LET tenfold == Mul(x, N(10))
        lo == Div(tenfold, Pow2(20))
    IN  {t \in {lo, Add(lo, <<1>>)} :
            Leq(AbsDiff(Mul(t, Pow2(20)), tenfold), Pow2(19))}

\* the 64-bit floats nearest to the natural b (two of them at an exact tie)
NearestDoubles(b) ==
    IF BitLen(b) <= 53 THEN {b}
    ELSE LET unit == Pow2(BitLen(b) - 53)
             lo == Mul(Div(b, unit), unit)
         IN  {f \in {lo, Add(lo, unit)} :
                 Leq(Mul(AbsDiff(f, b), N(2)), unit)}

MegabyteText(tenths) ==
    Decimal(Div(tenths, N(10))) \o <<".">> \o Decimal(Mod(tenths, N(10)))
        \o <<"M", "B">>

KilobyteText(b) == Decimal(Div(b, N(1024))) \o <<"K", "B">>

(***************************************************************************)
(* C9  Byte-size formatting as claimed: for every byte count b,            *)
(* format_display() is b / 2^20 rounded to the nearest tenth and followed  *)
(* by "MB" when b >= 2^20, and otherwise the integer part of b / 1024      *)
(* followed by "KB".                                                       *)
(***************************************************************************)
C9_RoundsByteCount ==
    Called("SessionSize::new") =>
        LET b == call[1].arg
        IN  IF Leq(Pow2(20), b)
            THEN ret[1].format_display
                     \in {MegabyteText(t) : t \in NearestTenths(b)}
            ELSE ret[1].format_display = KilobyteText(b)

(***************************************************************************)
(* C9 as amended: for every byte count b, format_display() is f / 2^20     *)
(* rounded to the nearest tenth and followed by "MB" when b >= 2^20, where *)
(* f is the 64-bit float nearest to b (b itself for every b up to 2^53),   *)
(* and otherwise the integer part of b / 1024 followed by "KB"; 2^20 - 1   *)
(* gives "1023KB" and 2^20 gives "1.0MB".                                  *)
(***************************************************************************)
C9_RoundsNearestDouble ==
    Called("SessionSize::new") =>
        LET b == call[1].arg
        IN  /\ IF Leq(Pow2(20), b)
               THEN ret[1].format_display
                        \in {MegabyteText(t) :
                                t \in UNION {NearestTenths(f) : f \in NearestDoubles(b)}}
               ELSE ret[1].format_display = KilobyteText(b)
            /\ b = N(1048575)
                   => ret[1].format_display = <<"1", "0", "2", "3", "K", "B">>
            /\ b = N(1048576)
                   => ret[1].format_display = <<"1", ".", "0", "M", "B">>

C9_Witness ==
    /\ Called("SessionSize::new")
    /\ call[1].arg = Add(Pow2(53), N(786431))
    /\ ret[1].format_display
           = <<"8", "5", "8", "9", "9", "3", "4", "5", "9", "2", ".", "8", "M", "B">>

(***************************************************************************)
(* C10  Git summary: format_full() is the branch name as it is, or the     *)
(* hash in parentheses for a detached HEAD, followed by '*' iff modified,  *)
(* then '?' iff untracked, then the up arrow and the ahead count iff the   *)
(* count is positive, then the down arrow and the behind count iff that    *)
(* count is positive; a clean repository gives the identity alone.         *)
(***************************************************************************)
C10_GitSummary ==
    Called("GitRepoStatus") =>
        LET g == call[1].arg
            identity == IF g.branch.tag = "Branch" THEN g.branch.text
                        ELSE <<"(">> \o g.branch.text \o <<")">>
            marks == (IF g.modified THEN <<"*">> ELSE <<>>)
                     \o (IF g.untracked THEN <<"?">> ELSE <<>>)
                     \o (IF g.ahead > 0
                         THEN <<UP_ARROW>> \o Decimal(N(g.ahead)) ELSE <<>>)
                     \o (IF g.behind > 0
                         THEN <<DOWN_ARROW>> \o Decimal(N(g.behind)) ELSE <<>>)
        IN  /\ ret[1].format_full = identity \o marks
            /\ (~g.modified /\ ~g.untracked /\ g.ahead = 0 /\ g.behind = 0)
                   => ret[1].format_full = identity

C10_Witness ==
    /\ Called("GitRepoStatus")
    /\ call[1].arg = GitRepoStatus(Detached(abc1234), TRUE, TRUE, 2, 10)
    /\ ret[1].format_full
           = <<"(", "a", "b", "c", "1", "2", "3", "4", ")", "*", "?",
               UP_ARROW, "2", DOWN_ARROW, "1", "0">>

(***************************************************************************)
(* Segments of a returned line, by their emoji.                            *)
(***************************************************************************)
\* the segments of the returned line that start with the emoji and a space
SegmentsOf(emoji) ==
    LET segs == Segments(ret[1].val)
    IN  {segs[k] : k \in {j \in DOMAIN segs : IsPrefix(<<emoji, " ">>, segs[j])}}

Occurs(ch, text) == \E i \in DOMAIN text : text[i] = ch

(***************************************************************************)
(* C11  Git segment: a line build() returns has a git segment iff the git  *)
(* state is set and is the Repo variant, and then that segment is the herb *)
(* emoji, a space and the git summary; with the git state unset or NotRepo *)
(* the herb emoji occurs nowhere in the line and no segment is empty.      *)
(***************************************************************************)
C11_GitSegmentIffRepo ==
    Returned =>
        LET line == ret[1].val
            segs == Segments(line)
            isRepo == builder.git_status # None
                      /\ builder.git_status[1].tag = "Repo"
        IN  /\ isRepo =>
                   SegmentsOf(HERB)
                       = {<<HERB, " ">> \o format_full(builder.git_status[1].status)}
            /\ ~isRepo => ~Occurs(HERB, line)
            /\ \A k \in DOMAIN segs : Len(segs[k]) > 2

C11_Witness ==
    /\ Returned
    /\ builder.git_status = Some(NotRepo)
    /\ builder.project_name # None
    /\ builder.session_size # None
    /\ Len(Segments(ret[1].val)) = 2
    /\ ~Occurs(HERB, ret[1].val)

C18_BriefLabels ==
    Called("StatusLineError") =>
        LET kind == call[1].arg.kind
        IN  /\ kind \in {"CredentialsNotFound", "KeychainAccess"}
                   => ret[1].brief = <<"N", "o", " ", "c", "r", "e", "d", "s">>
            /\ kind \in {"ApiRequest", "ApiResponse"}
                   => ret[1].brief = <<"A", "P", "I", " ", "e", "r", "r", "o", "r">>
            /\ kind = "InvalidInput"
                   => ret[1].brief = <<"B", "a", "d", " ", "i", "n", "p", "u", "t">>
            /\ kind = "Io" => ret[1].brief = <<"I", "O", " ", "e", "r", "r", "o", "r">>
            /\ kind = "TimestampParse"
                   => ret[1].brief = <<"P", "a", "r", "s", "e", " ", "e", "r", "r", "o", "r">>
            /\ kind = "Git" => ret[1].brief = <<>>
            /\ ret[1].show_in_status_line = (kind # "Git")
            /\ ret[1].show_in_status_line = (ret[1].brief # <<>>)

C18_Witness ==
    /\ Called("StatusLineError")
    /\ call[1].arg.kind = "Git"
    /\ call[1].arg.detail # <<>>
    /\ ret[1].brief = <<>>
    /\ ~ret[1].show_in_status_line

(***************************************************************************)
(* Colours and glyphs of the tiers, as the escape sequences written to the *)
(* terminal.                                                               *)
(***************************************************************************)
ColourStart(tier) ==
    CASE tier = "Normal" ->
           <<ESC, "[", "3", "8", ";", "2", ";", "0", ";", "2", "5", "5", ";",
             "0", "m">>
      [] tier = "Warning" ->
           <<ESC, "[", "3", "8", ";", "2", ";", "2", "5", "5", ";", "2", "5",
             "5", ";", "0", "m">>
      [] tier = "Critical" ->
           <<ESC, "[", "3", "8", ";", "2", ";", "2", "5", "5", ";", "1", "0",
             "0", ";", "1", "0", "0", "m">>

ColourReset == <<ESC, "[", "0", "m">>

Glyph(tier) ==
    CASE tier = "Normal" -> <<>>
      [] tier = "Warning" -> <<WARNING_SIGN, VS16>>
      [] tier = "Critical" -> <<RED_CIRCLE>>

CountOf(ch, text) == Cardinality({i \in DOMAIN text : text[i] = ch})

(***************************************************************************)
(* C14  Tiered segments: in a line build() returns, the context-usage      *)
(* segment and the session-size segment are each the segment emoji, a      *)
(* space, the colour start of the tier (green, yellow, red), the value     *)
(* text, the colour reset, and then the tier's glyph (none, warning sign,  *)
(* red circle), so the glyph comes after the reset.                        *)
(***************************************************************************)
C14_TieredSegments ==
    Returned =>
        /\ builder.context_usage # None =>
               LET pct == percentage(builder.context_usage[1]).val
                   tier == TierNat(pct, N(70), N(90))
               IN  SegmentsOf(BAR_CHART)
                       = {<<BAR_CHART, " ">> \o ColourStart(tier)
                              \o Decimal(pct) \o <<"%">> \o ColourReset
                              \o Glyph(tier)}
        /\ builder.session_size # None =>
               LET size == builder.session_size[1]
                   tier == TierNat(size, N(5 * 1048576), N(15 * 1048576))
               IN  SegmentsOf(PAGE_FACING_UP)
                       = {<<PAGE_FACING_UP, " ">> \o ColourStart(tier)
                              \o SessionSize_format_display(size) \o ColourReset
                              \o Glyph(tier)}

C14_Witness ==
    /\ Returned
    /\ builder.context_usage = Some(ContextUsageInfo_new(N(150), N(200)))
    /\ builder.session_size = Some(SessionSize_new(N(20 * 1024 * 1024)))
    /\ \E seg \in SegmentsOf(BAR_CHART) :
           SubSeq(seg, Len(seg) - 5, Len(seg))
               = <<ESC, "[", "0", "m", WARNING_SIGN, VS16>>
    /\ \E seg \in SegmentsOf(PAGE_FACING_UP) :
           SubSeq(seg, Len(seg) - 4, Len(seg)) = <<ESC, "[", "0", "m", RED_CIRCLE>>

(***************************************************************************)
(* C15  Cycle segments: in a line build() returns for a builder with no    *)
(* error, there is a 5-hour segment iff five_hour is set and a 7-day       *)
(* segment iff seven_day is set, each at most once, and when both are      *)
(* there the 7-day segment follows the 5-hour segment directly.            *)
(***************************************************************************)
C15_CyclesIndependent ==
    (Returned /\ builder.error_message = None) =>
        LET segs == Segments(ret[1].val)
            five == {k \in DOMAIN segs : IsPrefix(<<HIGH_VOLTAGE, " ">>, segs[k])}
            seven == {k \in DOMAIN segs : IsPrefix(<<CALENDAR, " ">>, segs[k])}
        IN  /\ Cardinality(five) = One(builder.five_hour # None)
            /\ Cardinality(seven) = One(builder.seven_day # None)
            /\ \A j \in five, k \in seven : k = j + 1

C15_Witness ==
    /\ Returned
    /\ builder.error_message = None
    /\ builder.five_hour = None
    /\ builder.seven_day # None
    /\ SegmentsOf(CALENDAR) # {}
    /\ SegmentsOf(HIGH_VOLTAGE) = {}

(***************************************************************************)
(* C16  Cycle segment format as claimed: a cycle segment is the cycle      *)
(* emoji, a space, the colour start of the tier, the percentage digits,    *)
(* the colour reset, then the percent sign, " @" and the local reset time. *)
(***************************************************************************)
CycleTier(cycle) == Tier(cycle.utilization, 50, 75)

C16_PercentAfterReset ==
    (Returned /\ builder.error_message = None) =>
        /\ builder.five_hour # None =>
               LET cycle == builder.five_hour[1]
               IN  SegmentsOf(HIGH_VOLTAGE)
                       = {<<HIGH_VOLTAGE, " ">> \o ColourStart(CycleTier(cycle))
                              \o Decimal(N(cycle.utilization)) \o ColourReset
                              \o <<"%", " ", "@">> \o format_reset_local(cycle)}
        /\ builder.seven_day # None =>
               LET cycle == builder.seven_day[1]
               IN  SegmentsOf(CALENDAR)
                       = {<<CALENDAR, " ">> \o ColourStart(CycleTier(cycle))
                              \o Decimal(N(cycle.utilization)) \o ColourReset
                              \o <<"%", " ", "@">> \o format_reset_local(cycle)}

(***************************************************************************)
(* C16 as amended: a cycle segment is the cycle emoji, a space, the colour *)
(* start of the tier, the percentage digits and the percent sign, the      *)
(* colour reset, then " @" and the local reset time; the percent sign is   *)
(* inside the coloured span, there is exactly one percent sign, and the    *)
(* segment has no tier glyph whatever the tier.                            *)
(***************************************************************************)
C16_PercentInsideColour ==
    (Returned /\ builder.error_message = None) =>
        /\ builder.five_hour # None =>
               LET cycle == builder.five_hour[1]
               IN  SegmentsOf(HIGH_VOLTAGE)
                       = {<<HIGH_VOLTAGE, " ">> \o ColourStart(CycleTier(cycle))
                              \o Decimal(N(cycle.utilization)) \o <<"%">>
                              \o ColourReset \o <<" ", "@">>
                              \o format_reset_local(cycle)}
        /\ builder.seven_day # None =>
               LET cycle == builder.seven_day[1]
               IN  SegmentsOf(CALENDAR)
                       = {<<CALENDAR, " ">> \o ColourStart(CycleTier(cycle))
                              \o Decimal(N(cycle.utilization)) \o <<"%">>
                              \o ColourReset \o <<" ", "@">>
                              \o format_reset_local(cycle)}
        /\ \A seg \in SegmentsOf(HIGH_VOLTAGE) \cup SegmentsOf(CALENDAR) :
               /\ CountOf("%", seg) = 1
               /\ CountOf(WARNING_SIGN, seg) = 0
               /\ CountOf(RED_CIRCLE, seg) = 0

C16_Witness ==
    /\ Returned
    /\ builder.error_message = None
    /\ builder.seven_day = Some(CycleInfo_new(UsagePercentage_new(90), 120))
    /\ tz = -300
    /\ SegmentsOf(CALENDAR)
           = {<<CALENDAR, " ", ESC, "[", "3", "8", ";", "2", ";", "2", "5", "5",
                ";", "1", "0", "0", ";", "1", "0", "0", "m", "9", "0", "%",
                ESC, "[", "0", "m", " ", "@", "1", "2", "/", "3", "1", " ",
                "2", "1", ":", "0", "0">>}

(***************************************************************************)
(* domain/input.rs: ClaudeInput                                            *)
(***************************************************************************)
ClaudeInput(cwd, model_info, context_window, transcript_path, session_size_bytes) ==
    [cwd |-> cwd, model |-> model_info, context_window |-> context_window,
     transcript_path |-> transcript_path,
     session_size_bytes |-> session_size_bytes]

ModelInfo(name) == [display_name |-> name]

ContextWindow(current_usage, context_window_size) ==
    [current_usage |-> current_usage,
     context_window_size |-> context_window_size]

ContextUsage(input_tokens, cache_creation_input_tokens, cache_read_input_tokens) ==
    [input_tokens |-> input_tokens,
     cache_creation_input_tokens |-> cache_creation_input_tokens,
     cache_read_input_tokens |-> cache_read_input_tokens]

(***************************************************************************)
(* The Deserialize implementations serde derives for these types.  A JSON  *)
(* object is a function from the keys it has to their values.  A field of  *)
(* an Option type is None when its key is absent; a field of another type  *)
(* is required, and its absence is the error "missing field `..`".         *)
(***************************************************************************)
HasKey(object, key) == key \in DOMAIN object

BACKTICK == "U+0060"

missing_field(name) ==
    <<"m", "i", "s", "s", "i", "n", "g", " ", "f", "i", "e", "l", "d", " ", BACKTICK>> \o name \o <<BACKTICK>>

\* an optional field whose value is a string or a number
OptionField(object, key) ==
    IF HasKey(object, key) THEN Some(object[key]) ELSE None

ModelInfo_deserialize(object) ==
    IF HasKey(object, "display_name") THEN Ok(ModelInfo(object.display_name))
    ELSE Err(missing_field(<<"d", "i", "s", "p", "l", "a", "y", "_", "n", "a", "m", "e">>))

ContextUsage_deserialize(object) ==
    IF ~HasKey(object, "input_tokens")
    THEN Err(missing_field(<<"i", "n", "p", "u", "t", "_", "t", "o", "k", "e", "n", "s">>))
    ELSE IF ~HasKey(object, "cache_creation_input_tokens")
    THEN Err(missing_field(
                 <<"c", "a", "c", "h", "e", "_", "c", "r", "e", "a", "t", "i", "o", "n", "_", "i", "n", "p", "u", "t", "_", "t", "o", "k", "e", "n", "s">>))
    ELSE IF ~HasKey(object, "cache_read_input_tokens")
    THEN Err(missing_field(
                 <<"c", "a", "c", "h", "e", "_", "r", "e", "a", "d", "_", "i", "n", "p", "u", "t", "_", "t", "o", "k", "e", "n", "s">>))
    ELSE Ok(ContextUsage(object.input_tokens,
                         object.cache_creation_input_tokens,
                         object.cache_read_input_tokens))

ContextWindow_deserialize(object) ==
    IF ~HasKey(object, "current_usage")
    THEN Ok(ContextWindow(None, OptionField(object, "context_window_size")))
    ELSE LET usage == ContextUsage_deserialize(object.current_usage)
         IN  IF ~usage.ok THEN usage
             ELSE Ok(ContextWindow(Some(usage.val),
                                   OptionField(object, "context_window_size")))

ClaudeInput_deserialize(object) ==
    LET model_info == IF HasKey(object, "model")
                      THEN ModelInfo_deserialize(object.model)
                      ELSE Ok(<<>>)
        window == IF HasKey(object, "context_window")
                  THEN ContextWindow_deserialize(object.context_window)
                  ELSE Ok(<<>>)
    IN  IF ~model_info.ok THEN model_info
        ELSE IF ~window.ok THEN window
        ELSE Ok(ClaudeInput(
                    OptionField(object, "cwd"),
                    IF HasKey(object, "model") THEN Some(model_info.val)
                    ELSE None,
                    IF HasKey(object, "context_window") THEN Some(window.val)
                    ELSE None,
                    OptionField(object, "transcript_path"),
                    OptionField(object, "session_size_bytes")))

\* Path::file_name: the last component of the path, none for the root and
\* for a path that ends in ".."
file_name(path) ==
    LET ends == {i \in DOMAIN path : path[i] # "/"}
    IN  IF ends = {} THEN None
        ELSE LET last == CHOOSE i \in ends : \A j \in ends : j <= i
                 slashes == {i \in 1..last : path[i] = "/"}
                 first == IF slashes = {} THEN 1
                          ELSE 1 + CHOOSE i \in slashes : \A j \in slashes : j <= i
                 name == SubSeq(path, first, last)
             IN  IF name = <<".", ".">> THEN None ELSE Some(name)

\* mutant: no fallback to the working directory of the process
ClaudeInput_project_name_no_fallback(self, current_dir) ==
    IF self.cwd # None /\ file_name(self.cwd[1]) # None
    THEN file_name(self.cwd[1])[1]
    ELSE <<"u", "n", "k", "n", "o", "w", "n">>

\* ClaudeInput::project_name; current_dir is what std::env::current_dir()
\* gives, None when it fails
ClaudeInput_project_name(self, current_dir) ==
    IF self.cwd # None /\ file_name(self.cwd[1]) # None
    THEN file_name(self.cwd[1])[1]
    ELSE IF current_dir # None /\ file_name(current_dir[1]) # None
    THEN file_name(current_dir[1])[1]
    ELSE <<"u", "n", "k", "n", "o", "w", "n">>

get_model(self) ==
    IF self.model # None
    THEN Model_from_display_name(self.model[1].display_name)
    ELSE Model_from_display_name(<<"U", "n", "k", "n", "o", "w", "n">>)

(***************************************************************************)
(* git/status.rs.  A git subcommand either cannot be started (spawn        *)
(* error), or exits with a failure status, or succeeds; `out` is its       *)
(* standard output.                                                        *)
(***************************************************************************)
LF == "\n"

TAB == "\t"

Spawned(success, out) == [spawn |-> TRUE, success |-> success, out |-> out]

SpawnError(detail) == [spawn |-> FALSE, detail |-> detail]

IsSpace(ch) == ch \in {" ", LF, TAB}

\* str::trim
trim(text) ==
    LET kept == {i \in DOMAIN text : ~IsSpace(text[i])}
    IN  IF kept = {} THEN <<>>
        ELSE SubSeq(text, CHOOSE i \in kept : \A j \in kept : i <= j,
                          CHOOSE i \in kept : \A j \in kept : j <= i)

\* the pieces of a text between occurrences of one character
SplitOn(ch, text) ==
    LET cuts == {i \in DOMAIN text : text[i] = ch}
        starts == {1} \cup {i + 1 : i \in cuts}
        nth(k) == CHOOSE st \in starts :
                      Cardinality({t \in starts : t < st}) = k - 1
        stop(st) == CHOOSE e \in cuts \cup {Len(text) + 1} :
                        e >= st /\ \A f \in cuts : f >= st => e <= f
    IN  [k \in 1..Cardinality(starts) |-> SubSeq(text, nth(k), stop(nth(k)) - 1)]

DigitValue(ch) ==
    CASE ch = "0" -> 0 [] ch = "1" -> 1 [] ch = "2" -> 2 [] ch = "3" -> 3
      [] ch = "4" -> 4 [] ch = "5" -> 5 [] ch = "6" -> 6 [] ch = "7" -> 7
      [] ch = "8" -> 8 [] ch = "9" -> 9

IsDigit(ch) == ch \in {"0", "1", "2", "3", "4", "5", "6", "7", "8", "9"}

RECURSIVE DigitsValue(_)
DigitsValue(text) ==
    IF text = <<>> THEN 0
    ELSE 10 * DigitsValue(SubSeq(text, 1, Len(text) - 1))
             + DigitValue(text[Len(text)])

\* str::parse::<u32>().unwrap_or(0), for counts of up to nine digits: the
\* digits may follow one plus sign
parse_or_zero(text) ==
    LET digits == IF text # <<>> /\ text[1] = "+" THEN Tail(text) ELSE text
    IN  IF /\ digits # <<>>
           /\ Len(digits) <= 9
           /\ \A i \in DOMAIN digits : IsDigit(digits[i])
        THEN DigitsValue(digits)
        ELSE 0

get_branch(git) ==
    IF ~git.symbolic_ref.spawn
    THEN Err(StatusLineError("Git", git.symbolic_ref.detail))
    ELSE IF git.symbolic_ref.success
    THEN Ok(Branch(trim(git.symbolic_ref.out)))
    ELSE IF ~git.rev_parse_short.spawn
    THEN Err(StatusLineError("Git", git.rev_parse_short.detail))
    ELSE Ok(Detached(trim(git.rev_parse_short.out)))

\* the output of `git status --porcelain=v1` is a sequence of lines
get_status_flags(git) ==
    IF ~git.status.spawn
    THEN Err(StatusLineError("Git", git.status.detail))
    ELSE LET lines == {git.status.out[k] : k \in DOMAIN git.status.out}
             long == {l \in lines : Len(l) >= 2}
         IN  Ok([modified |->
                     \E l \in long : \/ l[1] \notin {" ", "?"}
                                     \/ l[2] \in {"M", "D", "A"},
                 untracked |-> \E l \in long : l[1] = "?"])

\* mutant: the first column is taken for ahead and the second for behind
get_ahead_behind_swapped(git) ==
    IF ~git.rev_list.spawn
    THEN Err(StatusLineError("Git", git.rev_list.detail))
    ELSE IF ~git.rev_list.success THEN Ok([ahead |-> 0, behind |-> 0])
    ELSE LET parts == SplitOn(TAB, trim(git.rev_list.out))
         IN  IF Len(parts) = 2
             THEN Ok([ahead |-> parse_or_zero(parts[1]),
                      behind |-> parse_or_zero(parts[2])])
             ELSE Ok([ahead |-> 0, behind |-> 0])

get_ahead_behind(git) ==
    IF ~git.rev_list.spawn
    THEN Err(StatusLineError("Git", git.rev_list.detail))
    ELSE IF ~git.rev_list.success THEN Ok([ahead |-> 0, behind |-> 0])
    ELSE LET parts == SplitOn(TAB, trim(git.rev_list.out))
         IN  IF Len(parts) = 2
             THEN Ok([ahead |-> parse_or_zero(parts[2]),
                      behind |-> parse_or_zero(parts[1])])
             ELSE Ok([ahead |-> 0, behind |-> 0])

\* mutant: an error of the ahead/behind count is returned, like the errors
\* of the branch and of the status
get_git_status_strict(git) ==
    LET is_repo == IF git.inside.spawn THEN git.inside.success ELSE FALSE
    IN  IF ~is_repo THEN Ok(NotRepo)
        ELSE IF ~get_branch(git).ok THEN get_branch(git)
        ELSE IF ~get_status_flags(git).ok THEN get_status_flags(git)
        ELSE IF ~get_ahead_behind(git).ok THEN get_ahead_behind(git)
        ELSE Ok(Repo(GitRepoStatus(get_branch(git).val,
                                   get_status_flags(git).val.modified,
                                   get_status_flags(git).val.untracked,
                                   get_ahead_behind(git).val.ahead,
                                   get_ahead_behind(git).val.behind)))

get_git_status(git) ==
    LET is_repo == IF git.inside.spawn THEN git.inside.success ELSE FALSE
    IN  IF ~is_repo THEN Ok(NotRepo)
        ELSE IF ~get_branch(git).ok THEN get_branch(git)
        ELSE IF ~get_status_flags(git).ok THEN get_status_flags(git)
        ELSE LET counts == IF get_ahead_behind(git).ok
                           THEN get_ahead_behind(git).val
                           ELSE [ahead |-> 0, behind |-> 0]
             IN  Ok(Repo(GitRepoStatus(get_branch(git).val,
                                       get_status_flags(git).val.modified,
                                       get_status_flags(git).val.untracked,
                                       counts.ahead, counts.behind)))

\* the git subcommands get_git_status starts, in order
git_commands(git) ==
    LET is_repo == IF git.inside.spawn THEN git.inside.success ELSE FALSE
        c1 == <<"inside">>
        c2 == IF is_repo THEN c1 \o <<"symbolic_ref">> ELSE c1
        c3 == IF is_repo /\ git.symbolic_ref.spawn /\ ~git.symbolic_ref.success
              THEN c2 \o <<"rev_parse_short">> ELSE c2
        c4 == IF is_repo /\ get_branch(git).ok THEN c3 \o <<"status">> ELSE c3
        c5 == IF is_repo /\ get_branch(git).ok /\ get_status_flags(git).ok
              THEN c4 \o <<"rev_list">> ELSE c4
    IN  c5

(***************************************************************************)
(* api/keychain.rs: the `security` command gives the stored credentials    *)
(***************************************************************************)
\* `security` either cannot be started, or fails with a message on its
\* standard error, or prints something: valid UTF-8 or not, JSON or not,
\* with the access token in it or without
get_access_token(security) ==
    IF ~security.spawn
    THEN Err(StatusLineError("KeychainAccess", security.detail))
    ELSE IF ~security.success
    THEN Err(StatusLineError("KeychainAccess", security.stderr))
    ELSE IF ~security.out.utf8
    THEN Err(StatusLineError("KeychainAccess", security.out.detail))
    ELSE IF ~security.out.json
    THEN Err(StatusLineError("ApiResponse", security.out.detail))
    ELSE IF security.out.token = None
    THEN Err(StatusLineError("CredentialsNotFound", <<>>))
    ELSE Ok(security.out.token[1])

(***************************************************************************)
(* api/client.rs                                                           *)
(***************************************************************************)
ApiCycleInfo(utilization, resets_at) ==
    [utilization |-> utilization, resets_at |-> resets_at]

UsageResponse(five, seven) == [five_hour |-> five, seven_day |-> seven]

\* DateTime::parse_from_rfc3339 of a timestamp text, which is either an
\* RFC 3339 time, given by its minute of the year, or no such time
parse_from_rfc3339(text) ==
    IF text.rfc3339 THEN Ok(text.minute)
    ELSE Err(StatusLineError("TimestampParse", text.detail))

\* mutant: a reset time that does not parse is taken as minute 0
to_domain_default_time(self) ==
    LET five == parse_from_rfc3339(self.five_hour.resets_at)
        seven == parse_from_rfc3339(self.seven_day.resets_at)
    IN  Ok([five_hour |->
                CycleInfo_new(
                    UsagePercentage_from_float(self.five_hour.utilization),
                    IF five.ok THEN five.val ELSE 0),
            seven_day |->
                CycleInfo_new(
                    UsagePercentage_from_float(self.seven_day.utilization),
                    IF seven.ok THEN seven.val ELSE 0)])

to_domain(self) ==
    LET five == parse_from_rfc3339(self.five_hour.resets_at)
        seven == parse_from_rfc3339(self.seven_day.resets_at)
    IN  IF ~five.ok THEN five
        ELSE IF ~seven.ok THEN seven
        ELSE Ok([five_hour |->
                     CycleInfo_new(
                         UsagePercentage_from_float(self.five_hour.utilization),
                         five.val),
                 seven_day |->
                     CycleInfo_new(
                         UsagePercentage_from_float(self.seven_day.utilization),
                         seven.val)])

\* the request either fails, or gives a body that is not the expected JSON,
\* or gives a UsageResponse
fetch_usage(http) ==
    IF ~http.call THEN Err(StatusLineError("ApiRequest", http.detail))
    ELSE IF ~http.json THEN Err(StatusLineError("ApiResponse", http.detail))
    ELSE Ok(http.response)

\* main.rs, get_usage_data
get_usage_data(security, http) ==
    LET token == get_access_token(security)
    IN  IF ~token.ok THEN token
        ELSE LET response == fetch_usage(http)
             IN  IF ~response.ok THEN response
                 ELSE to_domain(response.val)

(***************************************************************************)
(* What the world outside gives one run of the program.                    *)
(***************************************************************************)
my_project_path ==
    <<"/", "U", "s", "e", "r", "s", "/", "t", "e", "s", "t", "/", "m", "y",
      "-", "p", "r", "o", "j", "e", "c", "t">>

root_path == <<"/">>

workdir_path == <<"/", "h", "o", "m", "e", "/", "d", "e", "v", "/", "w", "o", "r", "k">>

transcript_path_value ==
    <<"/", "U", "s", "e", "r", "s", "/", "t", "e", "s", "t", "/", ".", "c",
      "l", "a", "u", "d", "e", "/", "s", "e", "s", "s", "i", "o", "n", ".",
      "j", "s", "o", "n", "l">>

\* the JSON objects given for the keys of the input document
CwdObjects ==
    {<<>>, [cwd |-> my_project_path], [cwd |-> root_path]}

ModelObjects ==
    {<<>>, [model |-> <<>>]}
        \cup {[model |-> [display_name |-> name]] : name \in DisplayNames}

\* 30 + 10 + 10 tokens of 200
current_usage_value ==
    [input_tokens |-> N(30), cache_creation_input_tokens |-> N(10),
     cache_read_input_tokens |-> N(10)]

ContextWindowObjects ==
    {<<>>,
     [context_window |->
         [current_usage |-> current_usage_value,
          context_window_size |-> N(200)]]}

SessionSizeObjects ==
    {<<>>, [session_size_bytes |-> N(8 * 1024 * 1024)]}

\* the two objects together, for objects with no key in common
Merge(f, g) ==
    [k \in DOMAIN f \cup DOMAIN g |-> IF k \in DOMAIN f THEN f[k] ELSE g[k]]

\* every choice of the four keys, and for the keys inside context_window
\* and for transcript_path some objects that have only them
JsonObjects ==
    {Merge(Merge(c, m), Merge(w, z)) :
        c \in CwdObjects, m \in ModelObjects, w \in ContextWindowObjects,
        z \in SessionSizeObjects}
        \cup {[transcript_path |-> transcript_path_value],
              [context_window |-> <<>>],
              [context_window |-> [context_window_size |-> N(200)]],
              [context_window |-> [current_usage |-> current_usage_value]],
              [context_window |->
                  [current_usage |->
                       [input_tokens |-> N(30),
                        cache_creation_input_tokens |-> N(10)],
                   context_window_size |-> N(200)]],
              [context_window |->
                  [current_usage |-> <<>>, context_window_size |-> N(200)]]}

\* stdin: unreadable, or a text that is not JSON, or a JSON object
StdinValues ==
    {[read |-> FALSE, detail |-> <<"d", "e", "n", "i", "e", "d">>]}
        \cup {[read |-> TRUE,
               text |-> [json |-> FALSE,
                         detail |-> <<"e", "x", "p", "e", "c", "t", "e", "d", " ", "v", "a", "l", "u", "e">>]]}
        \cup {[read |-> TRUE, text |-> [json |-> TRUE, value |-> object]] :
                  object \in JsonObjects}

\* mutant: a text that is not JSON is read as the empty document
from_str_lenient(text) ==
    IF text.json THEN ClaudeInput_deserialize(text.value)
    ELSE Ok(ClaudeInput(None, None, None, None, None))

\* serde_json::from_str::<ClaudeInput>
from_str(text) ==
    IF text.json THEN ClaudeInput_deserialize(text.value)
    ELSE Err(text.detail)

\* the working directory of the process: not to be had, a directory with a
\* name, the root
CurrentDirs == {None, Some(workdir_path), Some(root_path)}

NotRun == SpawnError(<<>>)

GitWorld(inside, symbolic_ref, rev_parse_short, status, rev_list) ==
    [inside |-> inside, symbolic_ref |-> symbolic_ref,
     rev_parse_short |-> rev_parse_short, status |-> status,
     rev_list |-> rev_list]

\* git cannot be started; not a repository; a dirty branch ahead and
\* behind; the branch lookup cannot be started; a clean detached HEAD with
\* no upstream; the hash lookup cannot be started; the status cannot be
\* started; the ahead/behind count cannot be started
GitWorlds ==
    {GitWorld(SpawnError(<<"n", "o", " ", "g", "i", "t">>), NotRun, NotRun, NotRun, NotRun),
     GitWorld(Spawned(FALSE, <<>>), NotRun, NotRun, NotRun, NotRun),
     GitWorld(Spawned(TRUE, <<"t", "r", "u", "e", LF>>),
              Spawned(TRUE, main \o <<LF>>), NotRun,
              Spawned(TRUE, <<<<" ", "M", " ", "a">>, <<"?", "?", " ", "b">>>>),
              Spawned(TRUE, <<"1", TAB, "2", LF>>)),
     GitWorld(Spawned(TRUE, <<"t", "r", "u", "e", LF>>),
              SpawnError(<<"d", "e", "n", "i", "e", "d">>), NotRun, NotRun, NotRun),
     GitWorld(Spawned(TRUE, <<"t", "r", "u", "e", LF>>),
              Spawned(FALSE, <<>>), Spawned(TRUE, abc1234 \o <<LF>>),
              Spawned(TRUE, <<>>), Spawned(FALSE, <<>>)),
     GitWorld(Spawned(TRUE, <<"t", "r", "u", "e", LF>>),
              Spawned(FALSE, <<>>), SpawnError(<<"d", "e", "n", "i", "e", "d">>), NotRun, NotRun),
     GitWorld(Spawned(TRUE, <<"t", "r", "u", "e", LF>>),
              Spawned(TRUE, main \o <<LF>>), NotRun,
              SpawnError(<<"d", "e", "n", "i", "e", "d">>), NotRun),
     GitWorld(Spawned(TRUE, <<"t", "r", "u", "e", LF>>),
              Spawned(TRUE, main \o <<LF>>), NotRun,
              Spawned(TRUE, <<>>), SpawnError(<<"t", "i", "m", "e", "d", " ", "o", "u", "t">>))}

SecurityOutcomes ==
    {SpawnError(<<"d", "e", "n", "i", "e", "d">>),
     [spawn |-> TRUE, success |-> FALSE, stderr |-> <<"d", "e", "n", "i", "e", "d">>],
     [spawn |-> TRUE, success |-> TRUE,
      out |-> [utf8 |-> FALSE, detail |-> <<"i", "n", "v", "a", "l", "i", "d">>]],
     [spawn |-> TRUE, success |-> TRUE,
      out |-> [utf8 |-> TRUE, json |-> FALSE, detail |-> <<"e", "x", "p", "e", "c", "t", "e", "d", " ", "v", "a", "l", "u", "e">>]],
     [spawn |-> TRUE, success |-> TRUE,
      out |-> [utf8 |-> TRUE, json |-> TRUE, token |-> None]],
     [spawn |-> TRUE, success |-> TRUE,
      out |-> [utf8 |-> TRUE, json |-> TRUE, token |-> Some(<<"s", "k", "-", "t", "o", "k", "e", "n">>)]]}

Rfc3339(minute) == [rfc3339 |-> TRUE, minute |-> minute]

NotRfc3339 == [rfc3339 |-> FALSE, detail |-> <<"i", "n", "v", "a", "l", "i", "d">>]

\* utilizations 35.5 and 68.25, in quarters
UsageResponses ==
    {UsageResponse(ApiCycleInfo(Finite(142), five), ApiCycleInfo(Finite(273), seven)) :
        five \in {Rfc3339(30), NotRfc3339},
        seven \in {Rfc3339(59 * 1440 + 23 * 60 + 59), NotRfc3339}}

HttpOutcomes ==
    {[call |-> FALSE, detail |-> <<"t", "i", "m", "e", "d", " ", "o", "u", "t">>],
     [call |-> TRUE, json |-> FALSE, detail |-> <<"e", "x", "p", "e", "c", "t", "e", "d", " ", "v", "a", "l", "u", "e">>]}
        \cup {[call |-> TRUE, json |-> TRUE, response |-> r] : r \in UsageResponses}

(***************************************************************************)
(* main.rs: one run of the program.  `pc` is where main is, `world` what   *)
(* the run has seen of the outside so far, `invoked` the collaborators it  *)
(* has started, `stdout` and `stderr` the lines written, `exit_code` the   *)
(* exit status once the process has ended.                                 *)
(***************************************************************************)
WorldUnseen ==
    [args |-> None, stdin |-> None, current_dir |-> None, git |-> None,
     security |-> None, http |-> None]

InitMain ==
    /\ builder = StatusLineBuilder_new
    /\ builds = 0
    /\ tz \in TzOffsets
    /\ overflow_checks \in BOOLEAN
    /\ call = None
    /\ ret = None
    /\ pc = "main"
    /\ world = WorldUnseen
    /\ claude_input = None
    /\ stdout = <<>>
    /\ stderr = <<>>
    /\ exit_code = None
    /\ invoked = <<>>

\* Args::parse and the configuration flag
ParseArgs ==
    /\ pc = "main"
    /\ \E configure \in BOOLEAN :
        /\ world' = [world EXCEPT !.args = Some([configure |-> configure])]
        /\ IF configure
           THEN /\ stderr' = Append(stderr, <<"C", "o", "n", "f", "i", "g", "u", "r", "a", "t", "i",
                      "o", "n", " ", "m", "o", "d", "e", " ", "n", "o", "t",
                      " ", "y", "e", "t", " ", "i", "m", "p", "l", "e", "m",
                      "e", "n", "t", "e", "d", ".">>)
                /\ exit_code' = Some(0)
                /\ pc' = "exited"
           ELSE /\ pc' = "read_stdin"
                /\ UNCHANGED <<stderr, exit_code>>
    /\ UNCHANGED <<builder, builds, tz, overflow_checks, call, ret,
                   claude_input, stdout, invoked>>

ReadStdin ==
    /\ pc = "read_stdin"
    /\ \E input \in StdinValues :
        /\ world' = [world EXCEPT !.stdin = Some(input)]
        /\ IF ~input.read
           THEN /\ stderr' = Append(stderr, <<"F", "a", "i", "l", "e", "d", " ", "t", "o", " ", "r", "e", "a", "d", " ", "s", "t", "d", "i", "n", ":", " ">> \o input.detail)
                /\ exit_code' = Some(1)
                /\ pc' = "exited"
           ELSE /\ pc' = "parse_input"
                /\ UNCHANGED <<stderr, exit_code>>
    /\ UNCHANGED <<builder, builds, tz, overflow_checks, call, ret,
                   claude_input, stdout, invoked>>

ParseInput ==
    /\ pc = "parse_input"
    /\ LET parsed == from_str(world.stdin[1].text)
       IN  IF ~parsed.ok
           THEN /\ stderr' = Append(stderr, <<"F", "a", "i", "l", "e", "d", " ", "t", "o", " ", "p",
                      "a", "r", "s", "e", " ", "i", "n", "p", "u", "t", " ",
                      "J", "S", "O", "N", ":", " ">> \o parsed.err)
                /\ exit_code' = Some(1)
                /\ pc' = "exited"
                /\ UNCHANGED claude_input
           ELSE /\ claude_input' = Some(parsed.val)
                /\ pc' = "project_name"
                /\ UNCHANGED <<stderr, exit_code>>
    /\ UNCHANGED <<builder, builds, tz, overflow_checks, call, ret, world,
                   stdout, invoked>>

\* build_status_line: the project name; the working directory of the
\* process is asked for only when the input's cwd gives no name
ProjectName ==
    /\ pc = "project_name"
    /\ LET input == claude_input[1]
           asks == input.cwd = None \/ file_name(input.cwd[1]) = None
       IN  \E current_dir \in IF asks THEN CurrentDirs ELSE {None} :
               /\ builder' = project_name(StatusLineBuilder_new,
                                 ClaudeInput_project_name(input, current_dir))
               /\ call' = Call("project_name",
                               ClaudeInput_project_name(input, current_dir))
               /\ world' = IF asks
                           THEN [world EXCEPT !.current_dir = Some(current_dir)]
                           ELSE world
    /\ pc' = "git_status"
    /\ UNCHANGED <<builds, tz, overflow_checks, ret, claude_input, stdout,
                   stderr, exit_code, invoked>>

\* build_status_line: the git status, only when the input has a cwd
GitStatus ==
    /\ pc = "git_status"
    /\ IF claude_input[1].cwd = None
       THEN UNCHANGED <<builder, call, world, stderr, invoked>>
       ELSE \E git \in GitWorlds :
               /\ world' = [world EXCEPT !.git = Some(git)]
               /\ invoked' = invoked \o git_commands(git)
               /\ IF get_git_status(git).ok
                  THEN /\ builder' = git_status(builder, get_git_status(git).val)
                       /\ call' = Call("git_status", get_git_status(git).val)
                       /\ UNCHANGED stderr
                  ELSE /\ stderr' = Append(stderr,
                               <<"G", "i", "t", " ", "e", "r", "r", "o", "r", ":", " ">> \o Display(get_git_status(git).err))
                       /\ UNCHANGED <<builder, call>>
    /\ pc' = "model"
    /\ UNCHANGED <<builds, tz, overflow_checks, ret, claude_input, stdout,
                   exit_code>>

\* build_status_line: the model
SetModelFromInput ==
    /\ pc = "model"
    /\ builder' = model(builder, get_model(claude_input[1]))
    /\ call' = Call("model", get_model(claude_input[1]))
    /\ pc' = "session_size"
    /\ UNCHANGED <<builds, tz, overflow_checks, ret, world, claude_input,
                   stdout, stderr, exit_code, invoked>>

\* build_status_line: the session size, when the input has one
SetSessionSizeFromInput ==
    /\ pc = "session_size"
    /\ IF claude_input[1].session_size_bytes # None
       THEN /\ builder' = session_size(builder,
                   SessionSize_new(claude_input[1].session_size_bytes[1]))
            /\ call' = Call("session_size",
                   SessionSize_new(claude_input[1].session_size_bytes[1]))
       ELSE UNCHANGED <<builder, call>>
    /\ pc' = "usage_data"
    /\ UNCHANGED <<builds, tz, overflow_checks, ret, world, claude_input,
                   stdout, stderr, exit_code, invoked>>

\* build_status_line: the usage data; the request is made only with a
\* token
UsageData ==
    /\ pc = "usage_data"
    /\ \E security \in SecurityOutcomes :
        \E http \in IF get_access_token(security).ok
                    THEN {Some(h) : h \in HttpOutcomes} ELSE {None} :
            LET usage == IF http = None THEN get_access_token(security)
                         ELSE get_usage_data(security, http[1])
            IN  /\ world' = [world EXCEPT !.security = Some(security),
                                          !.http = http]
                /\ invoked' = IF http = None
                              THEN Append(invoked, "security")
                              ELSE invoked \o <<"security", "http">>
                /\ IF usage.ok
                   THEN /\ builder' = seven_day(
                                five_hour(builder, usage.val.five_hour),
                                usage.val.seven_day)
                        /\ call' = Call("seven_day", usage.val.seven_day)
                        /\ UNCHANGED stderr
                   ELSE /\ builder' = IF show_in_status_line(usage.err)
                                      THEN error(builder, brief(usage.err))
                                      ELSE builder
                        /\ call' = IF show_in_status_line(usage.err)
                                   THEN Call("error", brief(usage.err))
                                   ELSE call
                        /\ stderr' = Append(stderr,
                                <<"A", "P", "I", " ", "e", "r", "r", "o", "r", ":", " ">> \o Display(usage.err))
    /\ pc' = "build"
    /\ UNCHANGED <<builds, tz, overflow_checks, ret, claude_input, stdout,
                   exit_code>>

\* builder.build() and println!; main returns, the process exits with 0.
\* A panic in build() ends the process with 101 and a message on stderr.
BuildAndPrint ==
    /\ pc = "build"
    /\ ret' = Some(build(builder))
    /\ builder' = after_build(builder)
    /\ call' = Call("build", <<>>)
    /\ builds' = builds + 1
    /\ IF build(builder).ok
       THEN /\ stdout' = Append(stdout, build(builder).val)
            /\ exit_code' = Some(0)
            /\ UNCHANGED stderr
       ELSE /\ stderr' = Append(stderr, <<"t", "h", "r", "e", "a", "d", " ", "'", "m", "a", "i",
                      "n", "'", " ", "p", "a", "n", "i", "c", "k", "e",
                      "d">>)
            /\ exit_code' = Some(101)
            /\ UNCHANGED stdout
    /\ pc' = "exited"
    /\ UNCHANGED <<tz, overflow_checks, world, claude_input, invoked>>

NextMain ==
    \/ ParseArgs
    \/ ReadStdin
    \/ ParseInput
    \/ ProjectName
    \/ GitStatus
    \/ SetModelFromInput
    \/ SetSessionSizeFromInput
    \/ UsageData
    \/ BuildAndPrint

SpecMain == InitMain /\ [][NextMain]_vars

(***************************************************************************)
(* Reading a finished run.                                                 *)
(***************************************************************************)
Exited == pc = "exited"

\* the text has the other text somewhere in it
Contains(text, sub) ==
    \E i \in 0..(Len(text) - Len(sub)) : SubSeq(text, i + 1, i + Len(sub)) = sub

\* the run went past the parsing of its input
ValidInput == claude_input # None

\* stdin could not be read, or what was read is not the input document
MalformedInput ==
    /\ world.stdin # None
    /\ \/ ~world.stdin[1].read
       \/ ~world.stdin[1].text.json
       \/ ~ClaudeInput_deserialize(world.stdin[1].text.value).ok

(***************************************************************************)
(* C13  Short model name: when a run whose input has the model display     *)
(* name "Sonnet 4" has ended, every line it printed on stdout contains     *)
(* "S4".                                                                   *)
(***************************************************************************)
C13_ShortNameOnStdout ==
    (/\ Exited
     /\ ValidInput
     /\ claude_input[1].model
            = Some(ModelInfo(<<"S", "o", "n", "n", "e", "t", " ", "4">>)))
        => /\ stdout # <<>>
           /\ \A k \in DOMAIN stdout : Contains(stdout[k], <<"S", "4">>)

(***************************************************************************)
(* C19  Malformed input is fatal: once stdin has been found unreadable or  *)
(* not to be the input document, no collaborator has been invoked and      *)
(* nothing is on stdout, and when the run has ended its last line on       *)
(* stderr is the diagnostic with the error's detail and its exit code is   *)
(* not 0.                                                                  *)
(***************************************************************************)
C19_MalformedFatal ==
    MalformedInput =>
        /\ invoked = <<>>
        /\ stdout = <<>>
        /\ world.git = None /\ world.security = None /\ world.http = None
        /\ Exited =>
            /\ exit_code # None /\ exit_code[1] # 0
            /\ stderr # <<>>
            /\ LET detail == IF world.stdin[1].read
                             THEN from_str(world.stdin[1].text).err
                             ELSE world.stdin[1].detail
               IN  /\ IsPrefix(<<"F", "a", "i", "l", "e", "d", " ", "t", "o", " ">>,
                               stderr[Len(stderr)])
                   /\ Contains(stderr[Len(stderr)], detail)

C19_Witness ==
    /\ Exited
    /\ MalformedInput
    /\ world.stdin[1].read
    /\ exit_code = Some(1)
    /\ Len(stderr) = 1

(***************************************************************************)
(* What the collaborators gave the run.                                    *)
(***************************************************************************)
\* the git probe was made and gave an error
GitFailed == world.git # None /\ ~get_git_status(world.git[1]).ok

\* what get_usage_data gave, once the credentials have been looked up
UsageOutcome ==
    IF world.http = None THEN get_access_token(world.security[1])
    ELSE get_usage_data(world.security[1], world.http[1])

UsageFailed == world.security # None /\ ~UsageOutcome.ok

\* the error segments of a line
ErrorSegments(line) ==
    LET segs == Segments(line)
    IN  {k \in DOMAIN segs : IsErrorSegment(segs[k])}

(***************************************************************************)
(* C17  Graceful degradation: a run whose input is a valid document, when  *)
(* it has ended, has printed exactly one line on stdout and exited with 0, *)
(* whatever the git probe, the credential lookup, the usage fetch and the  *)
(* timestamp parsing gave.  If the usage side failed with an error whose   *)
(* brief label is not empty, the line has exactly one error segment, the   *)
(* warning sign and that label; if it did not fail the line has no error   *)
(* segment.  If the git probe gave an error the line has no git segment,   *)
(* and it has an error segment only if the usage side failed.              *)
(***************************************************************************)
C17_GracefulDegradation ==
    (Exited /\ ValidInput) =>
        /\ Len(stdout) = 1
        /\ exit_code = Some(0)
        /\ world.security # None
        /\ LET line == stdout[1]
               segs == Segments(line)
           IN  /\ (UsageFailed /\ brief(UsageOutcome.err) # <<>>) =>
                      /\ Cardinality(ErrorSegments(line)) = 1
                      /\ \A k \in ErrorSegments(line) :
                             segs[k] = <<WARNING_SIGN, VS16, " ">>
                                           \o brief(UsageOutcome.err)
               /\ ~UsageFailed => ErrorSegments(line) = {}
               /\ GitFailed =>
                      /\ ~Occurs(HERB, line)
                      /\ ErrorSegments(line) # {} => UsageFailed

C17_Witness ==
    /\ Exited
    /\ ValidInput
    /\ GitFailed
    /\ UsageFailed
    /\ UsageOutcome.err.kind = "TimestampParse"
    /\ Len(stdout) = 1

(***************************************************************************)
(* The failures of a run's collaborators, by their detail.                 *)
(***************************************************************************)
\* the details of the git subcommands the run started that could not be
\* run
GitFailureDetails ==
    IF world.git = None THEN {}
    ELSE {world.git[1][c].detail :
              c \in {d \in {"inside", "symbolic_ref", "rev_parse_short",
                            "status", "rev_list"} :
                        /\ \E k \in DOMAIN invoked : invoked[k] = d
                        /\ ~world.git[1][d].spawn}}

\* the full text of the error of the credential lookup, the usage fetch or
\* the timestamp parsing
UsageFailureDetails ==
    IF UsageFailed THEN {Display(UsageOutcome.err)} ELSE {}

(***************************************************************************)
(* C20  Diagnostic channel: when a run with a valid input has ended, the   *)
(* detail of every failure of a collaborator (a git subcommand that could  *)
(* not be run, the credential lookup, the usage fetch, the timestamp       *)
(* parsing) is in some line of stderr, and no line of stdout contains it.  *)
(***************************************************************************)
C20_DetailOnStderr ==
    (Exited /\ ValidInput) =>
        \A detail \in GitFailureDetails \cup UsageFailureDetails :
            /\ \E k \in DOMAIN stderr : Contains(stderr[k], detail)
            /\ \A k \in DOMAIN stdout : ~Contains(stdout[k], detail)

(***************************************************************************)
(* C21  Optional input keys: once a run has parsed a stdin text that is a  *)
(* JSON object of the documented keys, some of them absent, the parsing    *)
(* has succeeded, and every absent key has given an absent field: no cwd,  *)
(* no model, no context window, no current usage, no window size, no       *)
(* transcript path, no session size.                                       *)
(***************************************************************************)
C21_AbsentKeysParse ==
    (/\ world.stdin # None
     /\ world.stdin[1].read
     /\ world.stdin[1].text.json
     /\ pc # "parse_input")
        => LET object == world.stdin[1].text.value
           IN  /\ ValidInput
               /\ ~HasKey(object, "cwd") => claude_input[1].cwd = None
               /\ ~HasKey(object, "model") => claude_input[1].model = None
               /\ ~HasKey(object, "transcript_path")
                      => claude_input[1].transcript_path = None
               /\ ~HasKey(object, "session_size_bytes")
                      => claude_input[1].session_size_bytes = None
               /\ ~HasKey(object, "context_window")
                      => claude_input[1].context_window = None
               /\ (/\ HasKey(object, "context_window")
                   /\ ~HasKey(object.context_window, "current_usage"))
                      => claude_input[1].context_window[1].current_usage = None
               /\ (/\ HasKey(object, "context_window")
                   /\ ~HasKey(object.context_window, "context_window_size"))
                      => claude_input[1].context_window[1].context_window_size
                             = None

(***************************************************************************)
(* The project name of a run.                                              *)
(***************************************************************************)
\* the run has set the project name
ProjectNamed ==
    ValidInput /\ pc \notin {"main", "read_stdin", "parse_input", "project_name"}

\* the final component of the paths given, none for the root
FinalComponent(path) ==
    CASE path = my_project_path -> Some(<<"m", "y", "-", "p", "r", "o", "j", "e", "c", "t">>)
      [] path = workdir_path -> Some(<<"w", "o", "r", "k">>)
      [] path = root_path -> None

IsSuffix(suffix, text) ==
    /\ Len(suffix) <= Len(text)
    /\ SubSeq(text, Len(text) - Len(suffix) + 1, Len(text)) = suffix

\* the project segments of the line a finished run printed
ProjectSegments ==
    LET segs == Segments(stdout[1])
    IN  {segs[k] : k \in {j \in DOMAIN segs :
                              IsPrefix(<<FILE_FOLDER, " ">>, segs[j])}}

(***************************************************************************)
(* C22  Project name, as claimed: whenever the input has a cwd, the        *)
(* project name the run has set is the final component of that cwd: a      *)
(* non-empty text without a slash that the cwd ends with, after a slash.   *)
(***************************************************************************)
C22_CwdComponentWhenPresent ==
    (ProjectNamed /\ claude_input[1].cwd # None) =>
        LET name == builder.project_name[1]
        IN  /\ name # <<>>
            /\ ~Occurs("/", name)
            /\ IsSuffix(<<"/">> \o name, claude_input[1].cwd[1])

(***************************************************************************)
(* C22  Project-name fallback: the project name a run has set is the final *)
(* component of the input's cwd when there is a cwd and it has one;        *)
(* otherwise (no cwd, or a cwd with no final component such as the root)   *)
(* it is the final component of the working directory of the process, and  *)
(* "unknown" when that directory cannot be had or has no final component.  *)
(* So the name is always there, and the line a finished run printed has    *)
(* exactly one project segment, the folder emoji and that name.            *)
(***************************************************************************)
C22_ProjectNameFallback ==
    ProjectNamed =>
        LET cwd == claude_input[1].cwd
            own == cwd # None /\ FinalComponent(cwd[1]) # None
            dir == world.current_dir
            expected ==
                IF own THEN FinalComponent(cwd[1])[1]
                ELSE IF dir # None /\ dir[1] # None
                        /\ FinalComponent(dir[1][1]) # None
                THEN FinalComponent(dir[1][1])[1]
                ELSE <<"u", "n", "k", "n", "o", "w", "n">>
        IN  /\ ~own => dir # None
            /\ builder.project_name = Some(expected)
            /\ Exited => ProjectSegments = {<<FILE_FOLDER, " ">> \o expected}

C22_Witness ==
    /\ Exited
    /\ ValidInput
    /\ claude_input[1].cwd = Some(root_path)
    /\ world.current_dir = Some(Some(workdir_path))
    /\ ProjectSegments = {<<FILE_FOLDER, " ", "w", "o", "r", "k">>}

(***************************************************************************)
(* The functions of git/status.rs, called one at a time on what the git    *)
(* subcommands give.                                                       *)
(***************************************************************************)
\* the most commits counted on one side
MaxCommits == 12

is_inside_true == Spawned(TRUE, <<"t", "r", "u", "e", LF>>)

dirty_lines == <<<<" ", "M", " ", "a">>, <<"?", "?", " ", "b">>>>

\* every outcome of each subcommand: it cannot be run, it fails, it
\* succeeds
ProbeWorlds ==
    {GitWorld(inside, symbolic_ref, rev_parse_short, status, rev_list) :
        inside \in {is_inside_true, Spawned(FALSE, <<>>)},
        symbolic_ref \in {SpawnError(<<"d", "e", "n", "i", "e", "d">>), Spawned(FALSE, <<>>),
                          Spawned(TRUE, main \o <<LF>>)},
        rev_parse_short \in {SpawnError(<<"d", "e", "n", "i", "e", "d">>), Spawned(FALSE, <<>>),
                             Spawned(TRUE, abc1234 \o <<LF>>)},
        status \in {SpawnError(<<"d", "e", "n", "i", "e", "d">>), Spawned(TRUE, <<>>),
                    Spawned(TRUE, dirty_lines)},
        rev_list \in {SpawnError(<<"t", "i", "m", "e", "d", " ", "o", "u", "t">>), Spawned(FALSE, <<>>),
                      Spawned(TRUE, <<"1", TAB, "2", LF>>)}}

CallGetGitStatus ==
    /\ call = None
    /\ \E git \in ProbeWorlds :
           /\ call' = Call("get_git_status", git)
           /\ ret' = Some(get_git_status(git))
           /\ FnIdle

\* the fields of the output of rev-list: counts, and texts that are no
\* counts
CountFields ==
    {Decimal(N(n)) : n \in 0..MaxCommits}
        \cup {<<>>, <<"x">>, <<"1", "x">>, <<"-", "1">>, <<"+", "3">>}

\* the outputs of rev-list: two fields with a tab between them, and
\* outputs with one field, with three, with a space for the tab, with nothing
RevListOutputs ==
    {left \o <<TAB>> \o right \o <<LF>> :
        left \in CountFields, right \in CountFields}
        \cup {<<"5", LF>>, <<"1", TAB, "2", TAB, "3", LF>>,
              <<"1", " ", "2", LF>>, <<>>}

OnlyRevList(rev_list) == GitWorld(NotRun, NotRun, NotRun, NotRun, rev_list)

CallGetAheadBehind ==
    /\ call = None
    /\ \E rev_list \in {Spawned(TRUE, out) : out \in RevListOutputs}
                          \cup {Spawned(FALSE, <<>>),
                                SpawnError(<<"t", "i", "m", "e", "d", " ", "o", "u", "t">>)} :
           /\ call' = Call("get_ahead_behind", rev_list)
           /\ ret' = Some(get_ahead_behind(OnlyRevList(rev_list)))
           /\ FnIdle

\* the most lines of one output of git status
MaxLines == 2

\* lines of `git status --porcelain=v1`: the index column, the worktree
\* column, a space, the path
PorcelainLines ==
    {<<" ", "M", " ", "a">>, <<"M", " ", " ", "a">>, <<"M", "M", " ", "a">>,
     <<" ", "D", " ", "a">>, <<"D", " ", " ", "a">>, <<"A", " ", " ", "a">>,
     <<" ", "A", " ", "a">>, <<" ", "T", " ", "a">>, <<"T", " ", " ", "a">>,
     <<"U", "U", " ", "c">>, <<"?", "?", " ", "b">>}

PorcelainOutputs ==
    UNION {[1..n -> PorcelainLines] : n \in 0..MaxLines}

OnlyStatus(status) == GitWorld(NotRun, NotRun, NotRun, status, NotRun)

CallGetStatusFlags ==
    /\ call = None
    /\ \E status \in {Spawned(TRUE, out) : out \in PorcelainOutputs}
                        \cup {SpawnError(<<"d", "e", "n", "i", "e", "d">>)} :
           /\ call' = Call("get_status_flags", status)
           /\ ret' = Some(get_status_flags(OnlyStatus(status)))
           /\ FnIdle

NextFn ==
    \/ CallStatusLineError
    \/ CallUsagePercentageNew
    \/ CallUsagePercentageFromFloat
    \/ CallContextUsageInfo
    \/ CallSessionSize
    \/ CallGitRepoStatus
    \/ CallGetGitStatus
    \/ CallGetAheadBehind
    \/ CallGetStatusFlags

SpecFn == InitFn /\ [][NextFn]_vars

(***************************************************************************)
(* C23  No-upstream tolerance: when get_git_status was called inside a     *)
(* repository whose branch and status could be read, and the rev-list      *)
(* subcommand failed or could not be run, it returned the Repo variant     *)
(* with ahead = 0 and behind = 0, the branch that symbolic-ref or          *)
(* rev-parse gave and the flags of the status, and no error.               *)
(***************************************************************************)
C23_NoUpstreamTolerated ==
    (/\ Called("get_git_status")
     /\ call[1].arg.inside = is_inside_true
     /\ \/ call[1].arg.symbolic_ref.spawn /\ call[1].arg.symbolic_ref.success
        \/ /\ call[1].arg.symbolic_ref.spawn
           /\ call[1].arg.rev_parse_short.spawn
           /\ call[1].arg.rev_parse_short.success
     /\ call[1].arg.status.spawn
     /\ ~call[1].arg.rev_list.spawn \/ ~call[1].arg.rev_list.success)
        => LET git == call[1].arg
               branch == IF git.symbolic_ref.success THEN Branch(main)
                         ELSE Detached(abc1234)
               dirty == git.status.out = dirty_lines
           IN  ret[1] = Ok(Repo(GitRepoStatus(branch, dirty, dirty, 0, 0)))

C23_Witness ==
    /\ Called("get_git_status")
    /\ call[1].arg.inside = is_inside_true
    /\ call[1].arg.symbolic_ref.spawn /\ call[1].arg.symbolic_ref.success
    /\ call[1].arg.status.spawn /\ call[1].arg.status.out = dirty_lines
    /\ ~call[1].arg.rev_list.spawn
    /\ ret[1].ok
    /\ ret[1].val.tag = "Repo"
    /\ ret[1].val.status.ahead = 0

(***************************************************************************)
(* The counts in an output of rev-list.                                    *)
(***************************************************************************)
\* the number a field stands for: the count it is the decimal text of,
\* with or without a plus sign, and 0 for a field that is no number
FieldCount(field) ==
    LET digits == IF field # <<>> /\ field[1] = "+" THEN Tail(field) ELSE field
        counts == {n \in 0..MaxCommits : Decimal(N(n)) = digits}
    IN  IF counts = {} THEN 0 ELSE CHOOSE n \in counts : TRUE

\* the output is the two fields with a tab between them and a line end
TwoFields(out, left, right) == out = left \o <<TAB>> \o right \o <<LF>>

(***************************************************************************)
(* C24  Ahead/behind column mapping: when get_ahead_behind was called and  *)
(* rev-list succeeded with the output "L<TAB>R", L and R not empty, it     *)
(* returned ahead = the number R stands for and behind = the number L      *)
(* stands for, a field that is no number counting as 0 on its side only;   *)
(* for every other output (one field, three fields, a space for the tab,   *)
(* an empty field, nothing) it returned ahead = 0 and behind = 0.          *)
(***************************************************************************)
C24_ColumnMapping ==
    (/\ Called("get_ahead_behind")
     /\ call[1].arg.spawn
     /\ call[1].arg.success)
        => LET out == call[1].arg.out
               fields == CountFields \ {<<>>}
           IN  /\ \A left \in fields, right \in fields :
                      TwoFields(out, left, right) =>
                          ret[1] = Ok([ahead |-> FieldCount(right),
                                       behind |-> FieldCount(left)])
               /\ (~\E left \in fields, right \in fields :
                       TwoFields(out, left, right))
                      => ret[1] = Ok([ahead |-> 0, behind |-> 0])

C24_Witness ==
    /\ Called("get_ahead_behind")
    /\ call[1].arg = Spawned(TRUE, <<"3", TAB, "1", "2", LF>>)
    /\ ret[1] = Ok([ahead |-> 12, behind |-> 3])

(***************************************************************************)
(* C25  Branch identity: whenever get_git_status returned the Repo         *)
(* variant, the name of the branch, or the hash of the detached HEAD, is   *)
(* not empty, whatever symbolic-ref and rev-parse gave.                    *)
(***************************************************************************)
C25_BranchNonEmpty ==
    (/\ Called("get_git_status")
     /\ ret[1].ok
     /\ ret[1].val.tag = "Repo")
        => /\ ret[1].val.status.branch.tag \in {"Branch", "Detached"}
           /\ ret[1].val.status.branch.text # <<>>

(***************************************************************************)
(* C29  Status flags: whenever get_status_flags returned flags for an      *)
(* output of git status, untracked is true iff some line begins with '?',  *)
(* and modified is true iff some line has a letter other than space and    *)
(* '?' in its index column or in its worktree column.                      *)
(***************************************************************************)
C29_StatusFlags ==
    (/\ Called("get_status_flags")
     /\ call[1].arg.spawn)
        => LET out == call[1].arg.out
           IN  /\ ret[1].ok
               /\ ret[1].val.untracked = (\E k \in DOMAIN out : out[k][1] = "?")
               /\ ret[1].val.modified
                      = (\E k \in DOMAIN out :
                             \/ out[k][1] \notin {" ", "?"}
                             \/ out[k][2] \notin {" ", "?"})

(***************************************************************************)
(* C26  Separator discipline: whenever build() returns a line for a        *)
(* builder of which n fields contribute a segment, the line is empty when  *)
(* n = 0, and otherwise " | " occurs in it exactly n - 1 times, not at     *)
(* its start, not at its end, and no two occurrences with nothing between  *)
(* them, so that no piece between separators is empty.                     *)
(***************************************************************************)
C26_SeparatorDiscipline ==
    Returned =>
        LET line == ret[1].val
            n == Contributing(builder)
            seps == SeparatorsAt(line)
        IN  /\ n = 0 => line = <<>>
            /\ n > 0 =>
                   /\ Cardinality(seps) = n - 1
                   /\ Len(line) > 0
                   /\ 1 \notin seps
                   /\ (Len(line) - 2) \notin seps
                   /\ \A i \in seps : (i + 3) \notin seps
                   /\ \A k \in DOMAIN Segments(line) :
                          Segments(line)[k] # <<>>

C26_Witness ==
    /\ Returned
    /\ builder.git_status = Some(NotRepo)
    /\ builder.five_hour = None
    /\ builder.error_message = None
    /\ Contributing(builder) = 4
    /\ Cardinality(SeparatorsAt(ret[1].val)) = 3

(***************************************************************************)
(* C30  Field population is monotone: no call makes a field that is set    *)
(* unset; so from a builder with an error message every call leads to a    *)
(* builder with an error message, and a line build() returns for it has    *)
(* exactly one error segment and neither the 5-hour nor the 7-day emoji.   *)
(***************************************************************************)
C30_Monotone ==
    [][/\ \A f \in DOMAIN builder : builder[f] # None => builder'[f] # None
       /\ builder.error_message # None =>
              /\ builder'.error_message # None
              /\ (ret' # None /\ builds' > 0 /\ ret'[1].ok) =>
                     LET line == ret'[1].val
                     IN  /\ Cardinality(ErrorSegments(line)) = 1
                         /\ ~Occurs(HIGH_VOLTAGE, line)
                         /\ ~Occurs(CALENDAR, line)]_vars

C30_Witness ==
    /\ call # None
    /\ call[1].fn = "seven_day"
    /\ builder.seven_day = Some(call[1].arg)
    /\ builder.five_hour # None
    /\ builder.error_message # None
    /\ builds = 0

(***************************************************************************)
(* The usage side of a run, told from what the collaborators gave.         *)
(***************************************************************************)
\* the credential lookup gave a token, the request gave a response, and
\* both of its reset times are RFC 3339 times
AllSucceeded ==
    /\ world.security # None
    /\ world.security[1].spawn
    /\ world.security[1].success
    /\ world.security[1].out.utf8
    /\ world.security[1].out.json
    /\ world.security[1].out.token # None
    /\ world.http # None
    /\ world.http[1].call
    /\ world.http[1].json
    /\ world.http[1].response.five_hour.resets_at.rfc3339
    /\ world.http[1].response.seven_day.resets_at.rfc3339

\* build_status_line has got to builder.build(), or is past it
AtBuild == ValidInput /\ pc \in {"build", "exited"}

(***************************************************************************)
(* C27  Cycles and error in the binary: at every point of a run the        *)
(* builder has five_hour and seven_day both set or both unset, and none of *)
(* them set together with an error message; the builder handed to build()  *)
(* has them set exactly when the credential lookup, the usage fetch and    *)
(* both timestamp parses succeeded, and has an error message otherwise.    *)
(***************************************************************************)
C27_CyclesBothOrNeither ==
    /\ (builder.five_hour # None) = (builder.seven_day # None)
    /\ builder.five_hour # None => builder.error_message = None
    /\ AtBuild =>
           /\ (builder.five_hour # None) = AllSucceeded
           /\ (builder.error_message # None) = ~AllSucceeded

C27_Witness ==
    /\ pc = "build"
    /\ ValidInput
    /\ AllSucceeded
    /\ builder.five_hour # None
    /\ builder.seven_day # None
    /\ builder.error_message = None

(***************************************************************************)
(* C28  Context usage in the binary: when a run with a valid input has     *)
(* ended, the line it printed has a context-usage segment exactly when the *)
(* input has context_window with current_usage and context_window_size,    *)
(* and then that segment shows the three token counts added up, over the   *)
(* window size: 25% for 30 + 10 + 10 tokens of 200.                        *)
(***************************************************************************)
C28_ContextSegmentPrinted ==
    (Exited /\ ValidInput) =>
        LET window == claude_input[1].context_window
            given == /\ window # None
                     /\ window[1].current_usage # None
                     /\ window[1].context_window_size # None
            segs == Segments(stdout[1])
            shown == {k \in DOMAIN segs : IsPrefix(<<BAR_CHART, " ">>, segs[k])}
        IN  /\ Len(stdout) = 1
            /\ ~given => shown = {}
            /\ given =>
                   /\ Cardinality(shown) = 1
                   /\ \A k \in shown :
                          Contains(segs[k],
                                   Decimal(Div(
                                       Mul(Add(Add(window[1].current_usage[1].input_tokens,
                                                   window[1].current_usage[1].cache_creation_input_tokens),
                                               window[1].current_usage[1].cache_read_input_tokens),
                                           N(100)),
                                       window[1].context_window_size[1]))
                                       \o <<"%">>)

====
